---- MODULE Spec2Model ----
(***************************************************************************)
(* Verification model of the crypto_trade control plane.                   *)
(*                                                                         *)
(* The module holds one group of variables per subsystem and one           *)
(* specification per subsystem; every specification starts from Init and   *)
(* moves only its own subsystem's variables:                               *)
(*   SpecOSM    order state machine and StateManager (order_state.rs)      *)
(*   SpecPQ     PriorityQueue (order_manager.rs)                           *)
(*   SpecArb    ArbitrageManager (arbitrage.rs)                            *)
(*   SpecOM     OrderManager (order_manager.rs, order.rs)                  *)
(*   SpecFill   OrderManager, one order of quantity 10 and its fills       *)
(*   SpecHedge  OrderManager, the two orders of an arbitrage pair          *)
(*   SpecExec   OrderExecutor and IdempotentManager (trading-engine)       *)
(*   SpecChain  RiskRuleChain::check_all (risk_rules.rs)                   *)
(*   SpecPipe   execute_pre_pipeline (pipeline.rs, shared_state.rs)        *)
(*   SpecShared SharedState under the post-pipeline (shared_state.rs)      *)
(*   SpecHealth HealthTracker (health_tracker.rs)                          *)
(*   SpecCodec  the binary codec of signals and events (binary.rs)         *)
(*   SpecProc   PrePostProcessor: process_signal, reports, risk init       *)
(*   SpecCollector signal table and dispatch loop (signal-collector)       *)
(*   SpecResponse select_best_response and the outcome of execute         *)
(*   SpecSelector ConnectionSelector over a HealthTracker                  *)
(*   SpecDecode   from_bytes on truncated and malformed payloads           *)
(*   SpecWs       WsPool connection runners, keepalive, sends, shutdown    *)
(*   SpecWsLive   SpecWs with the fairness of the tokio scheduler          *)
(*   SpecRecover  execute over the selector and the tracker, with the      *)
(*                fairness of the runners' reconnect loop                  *)
(***************************************************************************)
EXTENDS Integers, Sequences, FiniteSets, TLC

\* ------------------------------------------------------------------ bounds
\* Longest transition history kept per order before the driver stops
\* feeding events to it.
MaxHistory == 5

\* Number of pushes the priority-queue driver makes.
MaxPushes == 4

\* Number of create_pair calls the arbitrage driver makes.
MaxPairCreates == 2

\* Number of times the arbitrage driver lets pairs enter a terminal state.
MaxCompletions == 2

\* Number of orders the order-manager driver creates.
MaxOrders == 1

\* Longest transition history of an order before the order-manager driver
\* stops making calls that name it.
MaxOrderEvents == 6

\* Number of execute / retry_execution calls the executor driver makes.
MaxCalls == 2

\* ExecutorConfig.max_retry_attempts, as the executor driver configures it.
MaxRetryAttempts == 2

\* Last millisecond of the executor driver's clock.
MaxClock == 1

\* Longest rule chain the chain driver registers.
MaxRules == 3

\* Number of execution reports the shared-state driver feeds to the
\* post-pipeline.
MaxReports == 3

\* Number of update_success / update_failure calls the health driver makes on
\* one connection between two registrations.
MaxUpdates == 6

\* Longest string, in characters, the codec driver puts in a value.
MaxStringLen == 2

\* Longest transition history of the order the fill-scenario driver follows.
MaxFillEvents == 7

\* Longest transition history of each of the two orders the hedge-scenario
\* driver follows.
MaxHedgeEvents == 5

\* Orders the processor creates in a run of SpecProc.
MaxProcOrders == 4

\* Minutes the processor's clock advances in a run of SpecProc.
MaxProcTicks == 1

\* Latest timestamp, in milliseconds, of the signals the collector receives.
MaxTimestamp == 2

\* Most responses send_concurrent returns to one execute call.
MaxResponses == 3

\* Most update_success and update_failure calls on the selector's tracker.
MaxSelUpdates == 3

\* Most ids the round-robin log of one pair holds.
MaxSelLog == 4

\* Most health updates send_concurrent makes for one connection.
MaxRecUpdates == 4

\* Ticks of a runner's clock that make up its keepalive period (25 s for the
\* OKEx runner, 185 s for the Binance runner).
PingTicks == 2

\* --------------------------------------------------------------- variables
VARIABLES
    machines,      \* StateManager.machines : order id -> current OrderState
    histories,     \* StateManager.histories: order id -> Seq(StateTransitionHistory)
    sm_result,     \* outcome of the last StateManager call
    orders,        \* OrderBook.orders_by_client_id : order id -> Order
    orders_by_exchange_id, \* OrderBook.orders_by_exchange_id : exchange id -> order id
    orders_by_symbol, \* OrderBook.orders_by_symbol : symbol -> Seq(order id)
    book_active_orders, \* OrderBook.active_orders : Seq(order id)
    book_pending_orders, \* OrderBook.pending_orders : Seq(order id)
    fills,         \* OrderManager.fills : order id -> Seq(Fill)
    n_created,     \* number of client order ids minted so far (each is fresh)
    queues,        \* PriorityQueue.queues : band 0..10 -> FIFO of order ids
    pq_pushed,     \* driver log: the (id, priority) pairs pushed so far
    pq_popped,     \* driver log: what each pop returned, and after how many pushes
    pairs,         \* ArbitrageManager.pairs : arbitrage id -> ArbitragePair
    order_to_arbitrage, \* ArbitrageManager.order_to_arbitrage : order id -> arbitrage id
    arb_stats,     \* ArbitrageManager.stats (the pair counters)
    exec_used_ids, \* IdempotentManager.used_ids (the keys)
    exec_calls,    \* the execute / retry_execution calls spawned so far
    exec_sent,     \* log of the fan-outs: one entry per send_concurrent call
    exec_now,      \* the clock, in milliseconds
    exec_healthy,  \* the connections the selector currently returns
    chain_rules,   \* RiskRuleChain.rules
    chain_pos,     \* check_all: index of the rule it evaluates next (0: not running)
    chain_evaluated, \* check_all: the rules evaluated in this run, in order
    chain_result,  \* check_all: what the last run returned
    pipe_pc,       \* execute_pre_pipeline: the step it applies next
    pipe_ctx,      \* execute_pre_pipeline: the PreProcessContext
    pipe_env,      \* the signal's age and the shared state the run reads
    pipe_result,   \* execute_pre_pipeline: what the last run returned
    shared_state,  \* PrePostProcessor.shared_state : SharedState
    risk_state,    \* PrePostProcessor.risk_state : the flags of RiskState its summary carries
    risk_initializer, \* PrePostProcessor.risk_initializer : the same flags of its RiskState
    proc_now,      \* the processor's clock, in seconds
    proc_last,     \* driver log: what the processor handled last
    health_metrics, \* HealthTracker.metrics : connection id -> HealthMetrics
    codec_type,    \* which of Signal, TradingEvent, EventMessage the codec handles
    codec_value,   \* the value last handed to to_bytes
    codec_bytes,   \* what that to_bytes call returned
    codec_again,   \* what a second to_bytes call on the same value returned
    codec_result,  \* what from_bytes returned on codec_bytes
    sig_last,      \* SignalManager.signals[i].last_signal, by signal index
    sig_triggers,  \* SignalManager.signals[i].trigger_indices, by signal index
    col_op,        \* driver log: what the collector did last
    col_signal,    \* the signal the dispatch loop handled last
    col_evaluated, \* the triggers it evaluated for that signal, in order
    col_published, \* the events it published for that signal, in order
    col_received,  \* driver log: the timestamps received so far, by signal index
    resp_responses, \* execute: the responses send_concurrent returned
    resp_selected, \* ExecutionResult.selected_response
    resp_success,  \* ExecutionResult.success
    sel_metrics,   \* HealthTracker.metrics of the selector: connection id -> HealthMetrics
    sel_order,     \* the order in which metrics.iter() visits the connection ids
    sel_strategy,  \* ConnectionSelector.strategy
    sel_indices,   \* ConnectionSelector.round_robin_indices : key -> index
    sel_last,      \* driver log: the last select_connections call and its result
    sel_log,       \* driver log: per pair, the ids round robin returned since the pair's list changed
    rec_delivers,  \* per connection: pool.send_to_connection to it returns Ok within the timeout
    rec_executed,  \* driver log: the number of execute calls so far, modulo 2
    ws_shutdown,   \* the value in the pool's shutdown watch channel
    ws_seen,       \* per runner: its shutdown_rx has seen the channel's current value
    ws_pc,         \* per runner: where run() stands
    ws_state,      \* per runner: BaseConnection.state
    ws_waiting_pong, \* per runner: waiting_pong of the OKEx runner
    ws_deadline,   \* per runner: ticks until its keepalive timer fires
    ws_idle,       \* per runner: ticks since it last sent a ping, or since it connected
    ws_quiet,      \* per runner: ticks since its last inbound message, ping or connect
    ws_forwarded,  \* per runner: the kinds of message it sent on message_tx
    ws_command_tx, \* per runner: command_tx of the runner's BaseConnection is Some
    ws_pool_command_tx, \* per runner: command_tx of the pool's BaseConnection is Some
    ws_send,       \* the last send of send_concurrent: connection, outcome, health update
    dec_type,      \* which from_bytes the receiver called: Signal, TradingEvent, EventMessage
    dec_input,     \* how the payload it was given was made
    dec_bytes,     \* the payload
    dec_outcome    \* how the call ended: value, error or abort

smVars == <<machines, histories, sm_result>>
bookIndexes == <<orders_by_exchange_id, orders_by_symbol, book_active_orders, book_pending_orders>>

bookVars == <<orders, bookIndexes, fills, n_created>>
pqVars == <<queues, pq_pushed, pq_popped>>
arbVars == <<pairs, order_to_arbitrage, arb_stats>>

execVars == <<exec_used_ids, exec_calls, exec_sent, exec_now, exec_healthy>>
chainVars == <<chain_rules, chain_pos, chain_evaluated, chain_result>>
pipeVars == <<pipe_pc, pipe_ctx, pipe_env, pipe_result>>

\* The order manager's subsystems, and the subsystems outside it.
coreVars == <<smVars, bookVars, pqVars, arbVars>>
restVars == <<execVars, chainVars, pipeVars>>

procVars == <<shared_state, risk_state, risk_initializer, proc_now, proc_last>>

\* The subsystems outside the order manager, the executor, the rule chain and
\* the stand-alone pre-pipeline.
healthVars == <<health_metrics>>

codecVars == <<codec_type, codec_value, codec_bytes, codec_again, codec_result>>

collectorVars == <<sig_last, sig_triggers, col_op, col_signal, col_evaluated,
                   col_published, col_received>>

\* The subsystems of the signal collector and of the trading engine's
\* connection layer.
responseVars == <<resp_responses, resp_selected, resp_success>>

selectorVars == <<sel_metrics, sel_order, sel_strategy, sel_indices, sel_last, sel_log>>

recoverVars == <<rec_delivers, rec_executed>>

wsKeepalive == <<ws_waiting_pong, ws_deadline, ws_idle, ws_quiet>>

wsCommand == <<ws_command_tx, ws_pool_command_tx, ws_send>>

wsVars == <<ws_shutdown, ws_seen, ws_pc, ws_state, wsKeepalive, ws_forwarded, wsCommand>>

decodeVars == <<dec_type, dec_input, dec_bytes, dec_outcome>>

extVars == <<collectorVars, responseVars, selectorVars, recoverVars, wsVars, decodeVars>>

lateVars == <<procVars, healthVars, codecVars, extVars>>

\* Everything but the signal collector.
exceptCollector == <<coreVars, restVars, procVars, healthVars, codecVars, responseVars, selectorVars, wsVars, decodeVars, recoverVars>>

\* Everything but the outcome of execute.
exceptResponse == <<coreVars, restVars, procVars, healthVars, codecVars, collectorVars, selectorVars, wsVars, decodeVars, recoverVars>>

\* Everything but the connection selector and its health tracker.
exceptSelector == <<coreVars, restVars, procVars, healthVars, codecVars, collectorVars, responseVars, wsVars, decodeVars, recoverVars>>

\* Everything but the payload handed to from_bytes.
exceptDecode == <<coreVars, restVars, procVars, healthVars, codecVars, collectorVars, responseVars, selectorVars, wsVars, recoverVars>>

\* Everything but the WebSocket pool.
exceptWs == <<coreVars, restVars, procVars, healthVars, codecVars, collectorVars, responseVars, selectorVars, decodeVars, recoverVars>>

\* Everything but the tracker, the selector and the outcome of the sends.
exceptRecover == <<coreVars, restVars, procVars, healthVars, codecVars, collectorVars, responseVars, wsVars, decodeVars>>

vars == <<coreVars, restVars, lateVars>>

\* Order ids handed to the StateManager.
OrderIds == {"o1", "o2"}

\* ===================================================== order_state.rs
OrderState ==
    {"Created", "Validated", "Submitting", "Submitted", "Acknowledged",
     "PartiallyFilled", "Filled", "Cancelled", "Rejected", "Expired", "Failed"}

\* StateTransitionEvent, by variant.  The payloads (exchange id, reason,
\* quantity and price) are only logged by get_next_state and never decide
\* the transition.
StateTransitionEvent ==
    {"Validate", "Submit", "SubmitSuccess", "SubmitFailed", "Acknowledge",
     "Reject", "PartialFill", "Fill", "Cancel", "CancelConfirmed", "Expire",
     "SystemError"}

is_terminal(s) == s \in {"Filled", "Cancelled", "Rejected", "Expired", "Failed"}

is_active(s) == s \in {"Submitting", "Submitted", "Acknowledged", "PartiallyFilled"}

can_cancel(s) ==
    s \in {"Created", "Validated", "Submitting", "Submitted", "Acknowledged",
           "PartiallyFilled"}

\* Result of get_next_state for a pair that matches no arm (the bail! arm).
Invalid == "Invalid"

\* A cancel accepted in every state (the can_cancel guard dropped).
get_next_state_any_cancel(current, event) ==
    CASE current = "Created" /\ event = "Validate" -> "Validated"
      [] current = "Validated" /\ event = "Submit" -> "Submitting"
      [] current = "Submitting" /\ event = "SubmitSuccess" -> "Submitted"
      [] current = "Submitting" /\ event = "SubmitFailed" -> "Failed"
      [] current = "Submitted" /\ event = "Acknowledge" -> "Acknowledged"
      [] current = "Submitted" /\ event = "Reject" -> "Rejected"
      [] current = "Acknowledged" /\ event = "PartialFill" -> "PartiallyFilled"
      [] current = "Acknowledged" /\ event = "Fill" -> "Filled"
      [] current = "PartiallyFilled" /\ event = "PartialFill" -> "PartiallyFilled"
      [] current = "PartiallyFilled" /\ event = "Fill" -> "Filled"
      [] event = "Cancel" -> "Cancelled"
      [] current = "Cancelled" /\ event = "CancelConfirmed" -> "Cancelled"
      [] event = "Expire" /\ is_active(current) -> "Expired"
      [] event = "SystemError" /\ ~is_terminal(current) -> "Failed"
      [] OTHER -> Invalid

\* OrderStateMachine::get_next_state: the match on (current_state, event).
\* The arms are pairwise disjoint, so the order of the arms does not matter.
get_next_state(current, event) ==
    CASE current = "Created" /\ event = "Validate" -> "Validated"
      [] current = "Validated" /\ event = "Submit" -> "Submitting"
      [] current = "Submitting" /\ event = "SubmitSuccess" -> "Submitted"
      [] current = "Submitting" /\ event = "SubmitFailed" -> "Failed"
      [] current = "Submitted" /\ event = "Acknowledge" -> "Acknowledged"
      [] current = "Submitted" /\ event = "Reject" -> "Rejected"
      [] current = "Acknowledged" /\ event = "PartialFill" -> "PartiallyFilled"
      [] current = "Acknowledged" /\ event = "Fill" -> "Filled"
      [] current = "PartiallyFilled" /\ event = "PartialFill" -> "PartiallyFilled"
      [] current = "PartiallyFilled" /\ event = "Fill" -> "Filled"
      [] event = "Cancel" /\ can_cancel(current) -> "Cancelled"
      [] current = "Cancelled" /\ event = "CancelConfirmed" -> "Cancelled"
      [] event = "Expire" /\ is_active(current) -> "Expired"
      [] event = "SystemError" /\ ~is_terminal(current) -> "Failed"
      [] OTHER -> Invalid

\* StateTransitionHistory (timestamp and details left out: the clock is not
\* part of the model and details is always None).
StateTransitionHistory(from, to, event) ==
    [from_state |-> from, to_state |-> to, event |-> event]

NoResult == [op |-> "none", order_id |-> "", event |-> "", from |-> "",
             ok |-> TRUE, to |-> ""]

\* State after StateManager::create_order(order_id): both maps get a fresh
\* entry (HashMap::insert overwrites an existing one).
sm_create_order(m, h, order_id) ==
    [machines |-> [id \in (DOMAIN m) \cup {order_id} |->
                      IF id = order_id THEN "Created" ELSE m[id]],
     histories |-> [id \in (DOMAIN h) \cup {order_id} |->
                      IF id = order_id THEN << >> ELSE h[id]]]

\* A transition_order that appends the history record before it knows
\* whether the machine accepted the event.
sm_transition_order_record_first(m, h, order_id, event) ==
    IF order_id \notin DOMAIN m
    THEN [ok |-> FALSE, from |-> "", to |-> "", machines |-> m, histories |-> h]
    ELSE LET from == m[order_id]
             to == get_next_state(from, event)
             h2 == IF order_id \in DOMAIN h
                   THEN [h EXCEPT ![order_id] =
                            Append(@, StateTransitionHistory(from, to, event))]
                   ELSE h
         IN IF to = Invalid
            THEN [ok |-> FALSE, from |-> from, to |-> "",
                  machines |-> m, histories |-> h2]
            ELSE [ok |-> TRUE, from |-> from, to |-> to,
                  machines |-> [m EXCEPT ![order_id] = to], histories |-> h2]

\* StateManager::transition_order together with OrderStateMachine::transition:
\* the result (Ok(to) or Err) and the two maps after the call.
sm_transition_order(m, h, order_id, event) ==
    IF order_id \notin DOMAIN m
    THEN [ok |-> FALSE, from |-> "", to |-> "", machines |-> m, histories |-> h]
    ELSE LET from == m[order_id]
             to == get_next_state(from, event)
         IN IF to = Invalid
            THEN [ok |-> FALSE, from |-> from, to |-> "",
                  machines |-> m, histories |-> h]
            ELSE [ok |-> TRUE, from |-> from, to |-> to,
                  machines |-> [m EXCEPT ![order_id] = to],
                  histories |-> IF order_id \in DOMAIN h
                                THEN [h EXCEPT ![order_id] =
                                        Append(@, StateTransitionHistory(from, to, event))]
                                ELSE h]

\* ============================================================ order.rs
None == "None"

\* Option<f64>: Some(x) is the one-element sequence, NoNumber is None.
Some(x) == <<x>>

NoNumber == << >>

unwrap_or(opt, default) == IF opt = NoNumber THEN default ELSE opt[1]

\* Decimal values that are not whole numbers (the average execution price)
\* are kept as reduced fractions.
RECURSIVE GCD(_, _)
GCD(a, b) == IF b = 0 THEN a ELSE GCD(b, a % b)

Rat(n, d) == LET g == GCD(n, d) IN [num |-> n \div g, den |-> d \div g]

ZERO == [num |-> 0, den |-> 1]

\* OrderType/TimeInForce/metadata and the timestamps' values are not
\* modelled; submitted_at and filled_at are kept as "is set".
\* Order::from_signal for the client order id `id` minted for it.
from_signal(signal, id) ==
    [client_order_id |-> id,
     exchange_order_id |-> None,
     signal_id |-> signal.id,
     symbol |-> signal.symbol,
     price |-> unwrap_or(signal.price, 0),
     quantity |-> unwrap_or(signal.quantity, 0),
     executed_quantity |-> 0,
     executed_price |-> ZERO,
     remaining_quantity |-> unwrap_or(signal.quantity, 0),
     state |-> "Created",
     submitted_at |-> FALSE,
     filled_at |-> FALSE,
     priority |-> 5,
     max_retry |-> 3,
     retry_count |-> 0,
     arbitrage_id |-> signal.arbitrage_id,
     is_hedge |-> (signal.signal_type = "Hedge")]

\* Order::can_retry
can_retry(o) == o.retry_count < o.max_retry /\ o.state \in {"Rejected", "Failed"}

\* An increment_retry that counts a retry twice.
increment_retry_twice(o) == [o EXCEPT !.retry_count = @ + 2]

\* Order::increment_retry
increment_retry(o) == [o EXCEPT !.retry_count = @ + 1]

\* Order::is_completed
is_completed(o) == o.state \in {"Filled", "Cancelled", "Expired"}

\* An update_execution that derives the remaining quantity from the previous
\* remaining quantity and clamps it at zero.
update_execution_clamped(o, executed_qty, executed_price) ==
    LET total_executed == o.executed_quantity + executed_qty
        remaining == IF o.remaining_quantity - executed_qty < 0 THEN 0
                     ELSE o.remaining_quantity - executed_qty
    IN [o EXCEPT
          !.executed_price =
              IF total_executed > 0
              THEN Rat(@.num * o.executed_quantity + executed_price * executed_qty * @.den,
                       @.den * total_executed)
              ELSE @,
          !.executed_quantity = total_executed,
          !.remaining_quantity = remaining,
          !.state = IF remaining <= 0 THEN "Filled"
                    ELSE IF total_executed > 0 THEN "PartiallyFilled" ELSE @,
          !.filled_at = IF remaining <= 0 THEN TRUE ELSE @]

\* An update_execution that keeps the price of the last fill instead of the
\* quantity-weighted average.
update_execution_last_price(o, executed_qty, executed_price) ==
    LET total_executed == o.executed_quantity + executed_qty
        remaining == o.quantity - total_executed
    IN [o EXCEPT
          !.executed_price = IF total_executed > 0 THEN Rat(executed_price, 1) ELSE @,
          !.executed_quantity = total_executed,
          !.remaining_quantity = remaining,
          !.state = IF remaining <= 0 THEN "Filled"
                    ELSE IF total_executed > 0 THEN "PartiallyFilled" ELSE @,
          !.filled_at = IF remaining <= 0 THEN TRUE ELSE @]

\* Order::update_execution
update_execution(o, executed_qty, executed_price) ==
    LET total_executed == o.executed_quantity + executed_qty
        remaining == o.quantity - total_executed
    IN [o EXCEPT
          !.executed_price =
              IF total_executed > 0
              THEN Rat(@.num * o.executed_quantity + executed_price * executed_qty * @.den,
                       @.den * total_executed)
              ELSE @,
          !.executed_quantity = total_executed,
          !.remaining_quantity = remaining,
          !.state = IF remaining <= 0 THEN "Filled"
                    ELSE IF total_executed > 0 THEN "PartiallyFilled" ELSE @,
          !.filled_at = IF remaining <= 0 THEN TRUE ELSE @]

\* Order::set_exchange_order_id
set_exchange_order_id(o, exchange_id) ==
    [o EXCEPT !.exchange_order_id = exchange_id, !.submitted_at = TRUE]

\* OrderBook::get_by_exchange_id(..).or_else(get_by_client_id(..)) as used by
\* process_execution_report: the client order id found, or None.
lookup_order(book, by_exchange, report_order_id) ==
    IF report_order_id \in DOMAIN by_exchange /\ by_exchange[report_order_id] \in DOMAIN book
    THEN by_exchange[report_order_id]
    ELSE IF report_order_id \in DOMAIN book THEN report_order_id
    ELSE None

\* A map with key k bound to v (HashMap::insert).
MapInsert(f, k, v) == [x \in (DOMAIN f) \cup {k} |-> IF x = k THEN v ELSE f[x]]

\* OrderBook::add_order, but for the insert into orders_by_client_id: the
\* symbol index, the exchange-id index if the order has an exchange id, and
\* the pending or the active list by the order's state.
add_order(order) ==
    LET client_id == order.client_order_id
    IN /\ orders_by_symbol' =
             MapInsert(orders_by_symbol, order.symbol,
                       Append(IF order.symbol \in DOMAIN orders_by_symbol
                              THEN orders_by_symbol[order.symbol] ELSE << >>,
                              client_id))
       /\ orders_by_exchange_id' =
             IF order.exchange_order_id # None
             THEN MapInsert(orders_by_exchange_id, order.exchange_order_id, client_id)
             ELSE orders_by_exchange_id
       /\ book_pending_orders' = IF order.state \in {"Created", "Validated"}
                            THEN Append(book_pending_orders, client_id) ELSE book_pending_orders
       /\ book_active_orders' = IF order.state \notin {"Created", "Validated"} /\ is_active(order.state)
                           THEN Append(book_active_orders, client_id) ELSE book_active_orders

\* A map without the keys in ks (HashMap::remove).
MapRemove(f, ks) == [x \in (DOMAIN f) \ ks |-> f[x]]

\* =================================================== order_manager.rs: queue
Bands == 0..10

Max(S) == CHOOSE x \in S : \A y \in S : y <= x

\* PriorityQueue::new
pq_new == [b \in Bands |-> << >>]

\* PriorityQueue::push
pq_push(q, order_id, priority) ==
    [q EXCEPT ![IF priority < 10 THEN priority ELSE 10] = Append(@, order_id)]

\* A pop that scans the bands from 0 upward.
pq_pop_lowest_first(q) ==
    LET nonempty == {b \in Bands : q[b] # << >>}
    IN IF nonempty = {} THEN [ret |-> None, band |-> -1, queues |-> q]
       ELSE LET b == CHOOSE x \in nonempty : \A y \in nonempty : x <= y
            IN [ret |-> Head(q[b]), band |-> b, queues |-> [q EXCEPT ![b] = Tail(@)]]

\* PriorityQueue::pop: the id returned (None when every band is empty), the
\* band it came from and the queue afterwards.
pq_pop(q) ==
    LET nonempty == {b \in Bands : q[b] # << >>}
    IN IF nonempty = {} THEN [ret |-> None, band |-> -1, queues |-> q]
       ELSE LET b == Max(nonempty)
            IN [ret |-> Head(q[b]), band |-> b, queues |-> [q EXCEPT ![b] = Tail(@)]]

\* StateManager::cleanup_terminal_orders(keep_history)
sm_cleanup_terminal_orders(m, h, keep_history) ==
    LET terminal_orders == {id \in DOMAIN m : is_terminal(m[id])}
    IN [machines |-> MapRemove(m, terminal_orders),
        histories |-> IF keep_history THEN h ELSE MapRemove(h, terminal_orders)]

\* ========================================================= arbitrage.rs
ArbitrageState ==
    {"Created", "MakerPending", "MakerFilled", "TakerPending", "BothPending",
     "Completed", "PartialSuccess", "Failed", "Cancelled"}

\* ArbitrageState::is_terminal
arb_is_terminal(st) == st \in {"Completed", "PartialSuccess", "Failed", "Cancelled"}

\* ArbitrageStats::new (the profit sums and the success rate are left out)
ArbitrageStats_new ==
    [total_pairs |-> 0, active_pairs |-> 0, completed_pairs |-> 0,
     successful_pairs |-> 0, failed_pairs |-> 0]

saturating_sub(a, b) == IF a > b THEN a - b ELSE 0

\* The pair create_pair builds (symbol, quantity and the prices are left out;
\* completed_at and actual_profit are kept as "is set").
new_pair(id) ==
    [id |-> id, maker_order_id |-> None, taker_order_id |-> None,
     state |-> "Created", completed_at |-> FALSE, actual_profit |-> FALSE,
     maker_status |-> None, taker_status |-> None]

\* ArbitrageManager::create_pair
arb_create_pair(ps, stats, id) ==
    [pairs |-> MapInsert(ps, id, new_pair(id)),
     stats |-> [stats EXCEPT !.total_pairs = @ + 1, !.active_pairs = @ + 1]]

\* ArbitrageManager::add_order
arb_add_order(ps, o2a, arbitrage_id, order_id) ==
    [order_to_arbitrage |-> MapInsert(o2a, order_id, arbitrage_id),
     pairs |->
        IF arbitrage_id \notin DOMAIN ps THEN ps
        ELSE LET pair == ps[arbitrage_id]
             IN IF pair.maker_order_id = None
                THEN [ps EXCEPT ![arbitrage_id] =
                        [pair EXCEPT !.maker_order_id = order_id,
                                     !.state = "MakerPending"]]
                ELSE IF pair.taker_order_id = None
                THEN [ps EXCEPT ![arbitrage_id] =
                        [pair EXCEPT !.taker_order_id = order_id,
                                     !.state = IF pair.state = "MakerPending"
                                               THEN "BothPending"
                                               ELSE "TakerPending"]]
                ELSE ps]

\* ArbitrageManager::get_hedge_required_pairs (the ids of the pairs returned)
get_hedge_required_pairs(ps) == {id \in DOMAIN ps : ps[id].state = "PartialSuccess"}

arb_failed(status) == status \in {"Cancelled", "Rejected", "Failed"}

\* Result of decide_row when the match falls through to its last arm.
Keep == "Keep"

\* A decision table whose third row forgets to require that the maker failed.
decide_row_taker_only(pair) ==
    LET maker_filled == pair.maker_status = "Filled"
        taker_filled == pair.taker_status = "Filled"
        maker_failed == arb_failed(pair.maker_status)
        taker_failed == arb_failed(pair.taker_status)
    IN CASE maker_filled /\ taker_filled -> "Completed"
         [] maker_filled /\ ~taker_filled /\ taker_failed -> "PartialSuccess"
         [] ~maker_filled /\ taker_filled -> "PartialSuccess"
         [] ~maker_filled /\ ~taker_filled /\ maker_failed /\ taker_failed -> "Failed"
         [] maker_filled /\ ~taker_filled /\ ~taker_failed -> "MakerFilled"
         [] OTHER -> Keep

\* The match of update_arbitrage_state on
\* (maker_filled, taker_filled, maker_failed, taker_failed): the state the
\* matching arm yields, or Keep for the last arm (`_ => pair.state`).  The
\* arms are pairwise disjoint.
decide_row(pair) ==
    LET maker_filled == pair.maker_status = "Filled"
        taker_filled == pair.taker_status = "Filled"
        maker_failed == arb_failed(pair.maker_status)
        taker_failed == arb_failed(pair.taker_status)
    IN CASE maker_filled /\ taker_filled -> "Completed"
         [] maker_filled /\ ~taker_filled /\ taker_failed -> "PartialSuccess"
         [] ~maker_filled /\ taker_filled /\ maker_failed -> "PartialSuccess"
         [] ~maker_filled /\ ~taker_filled /\ maker_failed /\ taker_failed -> "Failed"
         [] maker_filled /\ ~taker_filled /\ ~taker_failed -> "MakerFilled"
         [] OTHER -> Keep

\* ArbitrageManager::update_arbitrage_state: the pair and the stats after it.
update_arbitrage_state(pair, stats) ==
    LET row == decide_row(pair)
        new_state == IF row = Keep THEN pair.state ELSE row
        p2 == [pair EXCEPT
                 !.state = new_state,
                 !.completed_at =
                     IF row \in {"Completed", "PartialSuccess", "Failed"} THEN TRUE ELSE @,
                 !.actual_profit = IF row = "Completed" THEN TRUE ELSE @]
        changed == pair.state # new_state /\ arb_is_terminal(new_state)
    IN [pair |-> p2,
        stats |->
          IF ~changed THEN stats
          ELSE [stats EXCEPT
                  !.active_pairs = saturating_sub(@, 1),
                  !.completed_pairs = @ + 1,
                  !.successful_pairs = IF new_state = "Completed" THEN @ + 1 ELSE @,
                  !.failed_pairs = IF new_state = "Failed" THEN @ + 1 ELSE @]]

\* ArbitrageManager::update_order_status
arb_update_order_status(ps, stats, arbitrage_id, order_id, new_status) ==
    IF arbitrage_id \notin DOMAIN ps
    THEN [pairs |-> ps, stats |-> stats]
    ELSE LET pair == ps[arbitrage_id]
             p1 == IF pair.maker_order_id = order_id
                   THEN [pair EXCEPT !.maker_status = new_status]
                   ELSE IF pair.taker_order_id = order_id
                   THEN [pair EXCEPT !.taker_status = new_status]
                   ELSE pair
             r == update_arbitrage_state(p1, stats)
         IN [pairs |-> [ps EXCEPT ![arbitrage_id] = r.pair], stats |-> r.stats]

\* A cancel_pair that does not look at the pair's state.
arb_cancel_pair_always(ps, stats, arbitrage_id) ==
    IF arbitrage_id \in DOMAIN ps
    THEN [pairs |-> [ps EXCEPT ![arbitrage_id].state = "Cancelled",
                               ![arbitrage_id].completed_at = TRUE],
          stats |-> [stats EXCEPT !.active_pairs = saturating_sub(@, 1)]]
    ELSE [pairs |-> ps, stats |-> stats]

\* ArbitrageManager::cancel_pair
arb_cancel_pair(ps, stats, arbitrage_id) ==
    IF arbitrage_id \in DOMAIN ps /\ ~arb_is_terminal(ps[arbitrage_id].state)
    THEN [pairs |-> [ps EXCEPT ![arbitrage_id].state = "Cancelled",
                               ![arbitrage_id].completed_at = TRUE],
          stats |-> [stats EXCEPT !.active_pairs = saturating_sub(@, 1)]]
    ELSE [pairs |-> ps, stats |-> stats]

\* ArbitrageManager::cleanup_completed_pairs for the set `old` of pairs whose
\* completed_at lies before the cutoff.
arb_cleanup_completed_pairs(ps, o2a, old) ==
    LET gone == {id \in old : id \in DOMAIN ps /\ arb_is_terminal(ps[id].state)
                              /\ ps[id].completed_at}
        ids == {ps[id].maker_order_id : id \in gone} \cup {ps[id].taker_order_id : id \in gone}
    IN [pairs |-> MapRemove(ps, gone), order_to_arbitrage |-> MapRemove(o2a, ids)]

\* ================================================= trading-engine: executor
\* ExecutorConfig.idempotent_key_prefix
idempotent_key_prefix == "ORD"

\* The exchanges main registers a signer for before it starts the command
\* loop (the enabled entries of config.exchanges).
signers == {"binance"}

\* IdempotentManager::generate_client_order_id: the id
\* "{prefix}_{command_id}_{timestamp}" and used_ids with the id inserted.
generate_client_order_id(used_ids, command_id, timestamp) ==
    LET id == idempotent_key_prefix \o "_" \o command_id \o "_" \o ToString(timestamp)
    IN [id |-> id, used_ids |-> used_ids \cup {id}]

\* IdempotentManager::is_duplicate
is_duplicate(used_ids, client_order_id) == client_order_id \in used_ids

\* What execute returns: the error string of the ExecutionResult, or Success.
Success == "success"

\* What retry_execution does with the result of an attempt: it returns a
\* success, and after a failure it sleeps and calls execute again unless
\* this was the last of max_retry_attempts attempts.
after_attempt(call, result, max_retry_attempts) ==
    IF call.entry = "retry_execution" /\ result # Success
       /\ call.attempt + 1 < max_retry_attempts
    THEN [call EXCEPT !.attempt = @ + 1, !.pc = "mint",
                      !.client_order_id = None, !.result = result]
    ELSE [call EXCEPT !.pc = "done", !.result = result]

InitExec ==
    /\ exec_used_ids = {}
    /\ exec_calls = << >>
    /\ exec_sent = << >>
    /\ exec_now = 0
    /\ exec_healthy = {}

\* ================================================ risk_rules.rs: rule chain
\* What RiskRule::check returns for the signal and state at hand.
RuleOutcomes == {"Ok(true)", "Ok(false)", "Err"}

\* A rule of the chain: is_critical() and what its check returns.
Rules == [critical : BOOLEAN, outcome : RuleOutcomes]

Running == "running"

\* A loop body that returns at every failed rule, critical or not.
check_rule_all_critical(rule, index) ==
    CASE rule.outcome = "Ok(true)" -> Running
      [] rule.outcome = "Ok(false)" -> "Ok(false)"
      [] rule.outcome = "Err" -> "Err(" \o ToString(index) \o ")"

\* The body of the loop of check_all for one rule: what check_all returns
\* after this rule, or Running when it goes on to the next one.  An error
\* carries the index of the rule it came from.
check_rule(rule, index) ==
    CASE rule.outcome = "Ok(true)" -> Running
      [] rule.outcome = "Ok(false)" -> IF rule.critical THEN "Ok(false)" ELSE Running
      [] rule.outcome = "Err" ->
           IF rule.critical THEN "Err(" \o ToString(index) \o ")" ELSE Running

InitChain ==
    /\ chain_rules = << >>
    /\ chain_pos = 0
    /\ chain_evaluated = << >>
    /\ chain_result = None

\* ==================================== shared_state.rs and pipeline.rs
\* Decimal amounts that the code divides (average prices, exposure, profit
\* and loss) are exact rationals [num, den] with den > 0 in lowest terms;
\* quantities and report prices are integers.
Dec(n, d) ==
    LET sn == IF d < 0 THEN -n ELSE n
        sd == IF d < 0 THEN -d ELSE d
        g == GCD(IF sn < 0 THEN -sn ELSE sn, sd)
    IN [num |-> sn \div g, den |-> sd \div g]

dec_add(a, b) == Dec(a.num * b.den + b.num * a.den, a.den * b.den)

dec_sub(a, b) == Dec(a.num * b.den - b.num * a.den, a.den * b.den)

dec_mul(a, b) == Dec(a.num * b.num, a.den * b.den)

dec_div(a, b) == Dec(a.num * b.den, a.den * b.num)

dec_abs(a) == [a EXCEPT !.num = IF @ < 0 THEN -@ ELSE @]

dec_ge(a, b) == a.num * b.den >= b.num * a.den

\* Decimal::from(n) for an integer n
dec(n) == Dec(n, 1)

\* RiskQuota::new
RiskQuota_new ==
    [max_position |-> 100, max_capital |-> 5000, max_pending_orders |-> 3,
     current_position |-> 0, current_capital |-> 0, pending_orders |-> 0,
     daily_trades |-> 0, last_trade_time |-> NoNumber]

\* RiskQuota::can_trade
can_trade(quota, quantity, capital) ==
    /\ quota.current_position + quantity <= quota.max_position
    /\ quota.current_capital + capital <= quota.max_capital
    /\ quota.pending_orders < quota.max_pending_orders
    /\ quota.daily_trades < 1000

\* RiskQuota::check_cooldown at the time now (seconds)
check_cooldown(quota, cooldown_seconds, now) ==
    IF quota.last_trade_time = NoNumber THEN TRUE
    ELSE now - quota.last_trade_time[1] >= cooldown_seconds

\* SharedState::new
SharedState_new ==
    [positions |-> << >>, risk_quotas |-> << >>, total_exposure |-> dec(0),
     max_total_exposure |-> Dec(3, 100), warning_threshold |-> Dec(25, 1000)]

\* SharedState::risk_check at the time now (seconds)
risk_check(state, signal, now) ==
    LET quota == IF signal.symbol \in DOMAIN state.risk_quotas
                 THEN state.risk_quotas[signal.symbol]
                 ELSE RiskQuota_new
        quantity == unwrap_or(signal.quantity, 0)
        notional == IF signal.price # NoNumber /\ signal.quantity # NoNumber
                    THEN signal.price[1] * signal.quantity[1]
                    ELSE 0
    IN /\ can_trade(quota, quantity, notional)
       /\ check_cooldown(quota, 60, now)
       /\ ~dec_ge(state.total_exposure, state.max_total_exposure)

abs(x) == IF x < 0 THEN -x ELSE x

\* SharedState::position_check
position_check(state, symbol, quantity) ==
    IF symbol \in DOMAIN state.positions
    THEN abs(state.positions[symbol].quantity + quantity) <= 100
    ELSE abs(quantity) <= 100

\* Option<Order>::None
NoOrder == << >>

\* PreProcessContext::new
PreProcessContext_new(signal) ==
    [signal |-> signal, should_continue |-> TRUE, priority |-> 5, order |-> NoOrder]

\* common::types::Order::from_signal (the id, a fresh uuid, the timestamp and
\* the symbol, exchange and side are left out)
Order_from_signal(signal) ==
    [price |-> unwrap_or(signal.price, 0),
     quantity |-> unwrap_or(signal.quantity, 0),
     filled_quantity |-> 0,
     status |-> "Pending",
     priority |-> signal.priority]

\* check_signal_age for a signal that is age_ms old
check_signal_age(ctx, age_ms) ==
    IF ~ctx.should_continue THEN ctx
    ELSE IF age_ms > 100 THEN [ctx EXCEPT !.should_continue = FALSE]
    ELSE ctx

\* check_risk_control
check_risk_control(ctx, state, now) ==
    IF ~ctx.should_continue THEN ctx
    ELSE IF ~risk_check(state, ctx.signal, now) THEN [ctx EXCEPT !.should_continue = FALSE]
    ELSE ctx

\* check_position_limit
check_position_limit(ctx, state) ==
    IF ~ctx.should_continue THEN ctx
    ELSE IF ~position_check(state, ctx.signal.symbol, unwrap_or(ctx.signal.quantity, 0))
    THEN [ctx EXCEPT !.should_continue = FALSE]
    ELSE ctx

\* A construct_order that does not look at should_continue.
construct_order_always(ctx) ==
    [ctx EXCEPT !.order = Some(Order_from_signal(ctx.signal))]

\* construct_order
construct_order(ctx) ==
    IF ~ctx.should_continue THEN ctx
    ELSE [ctx EXCEPT !.order = Some(Order_from_signal(ctx.signal))]

\* assign_priority (its match names the signal types Arbitrage, Market and
\* Hedge only)
assign_priority(ctx) ==
    IF ~ctx.should_continue THEN ctx
    ELSE LET priority == CASE ctx.signal.signal_type = "Arbitrage" -> 10
                           [] ctx.signal.signal_type = "Market" -> 5
                           [] ctx.signal.signal_type = "Hedge" -> 8
         IN [ctx EXCEPT !.priority = priority,
                        !.order = IF @ = NoOrder THEN @
                                  ELSE Some([@[1] EXCEPT !.priority = priority])]

\* The end of execute_pre_pipeline: Ok(result.order) or Ok(None).
pre_pipeline_result(ctx) ==
    IF ctx.should_continue /\ ctx.order # NoOrder THEN ctx.order ELSE NoOrder

\* The steps of execute_pre_pipeline in the order of its pipe chain, followed
\* by the return.
PipeSteps ==
    <<"check_signal_age", "check_risk_control", "check_position_limit",
      "construct_order", "assign_priority", "return">>

\* A signal for the context the pipeline holds before its first run.
NoSignal ==
    [signal_type |-> "Market", symbol |-> "", price |-> NoNumber,
     quantity |-> NoNumber, priority |-> 0]

InitPipe ==
    /\ pipe_pc = "idle"
    /\ pipe_ctx = PreProcessContext_new(NoSignal)
    /\ pipe_env = [age_ms |-> 0, now |-> 0, state |-> SharedState_new]
    /\ pipe_result = NoOrder


\* --------------------------------------------- the rules of risk_rules.rs
\* PositionLimitRule::check
PositionLimitRule_check(max_position, signal, state) ==
    LET current_position == IF signal.symbol \in DOMAIN state.positions
                            THEN state.positions[signal.symbol].quantity
                            ELSE 0
        quantity == unwrap_or(signal.quantity, 0)
    IN ~(abs(current_position + quantity) > max_position)

\* price * quantity of a signal, zero when one of them is absent.
signal_notional(signal) ==
    IF signal.price # NoNumber /\ signal.quantity # NoNumber
    THEN signal.price[1] * signal.quantity[1]
    ELSE 0

\* CapitalLimitRule::check
CapitalLimitRule_check(max_capital, signal, state) ==
    LET current_capital == IF signal.symbol \in DOMAIN state.risk_quotas
                           THEN state.risk_quotas[signal.symbol].current_capital
                           ELSE 0
    IN ~(current_capital + signal_notional(signal) > max_capital)

\* PendingOrdersRule::check
PendingOrdersRule_check(max_pending, signal, state) ==
    LET pending_orders == IF signal.symbol \in DOMAIN state.risk_quotas
                          THEN state.risk_quotas[signal.symbol].pending_orders
                          ELSE 0
    IN ~(pending_orders >= max_pending)

\* TotalExposureRule::check (the warning threshold only logs)
TotalExposureRule_check(max_exposure, signal, state) ==
    LET new_exposure == dec_add(state.total_exposure, dec(abs(signal_notional(signal))))
    IN dec_ge(max_exposure, new_exposure)

\* DailyTradesRule::check
DailyTradesRule_check(max_daily_trades, signal, state) ==
    LET daily_trades == IF signal.symbol \in DOMAIN state.risk_quotas
                        THEN state.risk_quotas[signal.symbol].daily_trades
                        ELSE 0
    IN ~(daily_trades >= max_daily_trades)

\* CooldownRule::check at the time now (seconds)
CooldownRule_check(cooldown_seconds, signal, state, now) ==
    IF signal.symbol \in DOMAIN state.risk_quotas
       /\ state.risk_quotas[signal.symbol].last_trade_time # NoNumber
    THEN ~(now - state.risk_quotas[signal.symbol].last_trade_time[1] < cooldown_seconds)
    ELSE TRUE

\* Ok(true) or Ok(false) of a rule's check.
rule_outcome(passed) == IF passed THEN "Ok(true)" ELSE "Ok(false)"

\* The rules create_default_rule_chain() adds after SignalAge, in its order,
\* each with is_critical() and the outcome of its check.
default_rule_chain(signal, state, now) ==
    <<[critical |-> TRUE,
       outcome |-> rule_outcome(PositionLimitRule_check(100, signal, state))],
      [critical |-> TRUE,
       outcome |-> rule_outcome(CapitalLimitRule_check(5000, signal, state))],
      [critical |-> TRUE,
       outcome |-> rule_outcome(PendingOrdersRule_check(3, signal, state))],
      [critical |-> TRUE,
       outcome |-> rule_outcome(TotalExposureRule_check(Dec(3, 100), signal, state))],
      [critical |-> TRUE,
       outcome |-> rule_outcome(CooldownRule_check(60, signal, state, now))],
      [critical |-> FALSE,
       outcome |-> rule_outcome(DailyTradesRule_check(1000, signal, state))]>>

RECURSIVE check_all_from(_, _)
\* RiskRuleChain::check_all from the rule at index on: the first result that
\* ends the loop, or Ok(true) after the last rule.
check_all_from(rules, index) ==
    IF index > Len(rules) THEN "Ok(true)"
    ELSE LET r == check_rule(rules[index], index)
         IN IF r = Running THEN check_all_from(rules, index + 1) ELSE r
\* ============================= shared_state.rs: the post-pipeline's writes
\* format!("{:?}", report.symbol) for a Symbol(u32)
format_symbol(n) == "Symbol(" \o ToString(n) \o ")"

\* The PositionInfo that update_position inserts for a symbol it has not seen.
PositionInfo_new ==
    [quantity |-> 0, avg_price |-> dec(0), realized_pnl |-> dec(0),
     unrealized_pnl |-> dec(0)]

RECURSIVE SumExposure(_, _)
\* The sum over the positions named in S of |quantity * avg_price|.
SumExposure(positions, S) ==
    IF S = {} THEN dec(0)
    ELSE LET s == CHOOSE x \in S : TRUE
         IN dec_add(dec_abs(dec_mul(dec(positions[s].quantity), positions[s].avg_price)),
                    SumExposure(positions, S \ {s}))

RECURSIVE SumSigned(_, _)
\* The same sum without the absolute value.
SumSigned(positions, S) ==
    IF S = {} THEN dec(0)
    ELSE LET s == CHOOSE x \in S : TRUE
         IN dec_add(dec_mul(dec(positions[s].quantity), positions[s].avg_price),
                    SumSigned(positions, S \ {s}))

\* A calculate_total_exposure that sums quantity * avg_price as it is.
calculate_total_exposure_signed(state) ==
    [state EXCEPT !.total_exposure = SumSigned(state.positions, DOMAIN state.positions)]

\* SharedState::calculate_total_exposure
calculate_total_exposure(state) ==
    [state EXCEPT !.total_exposure = SumExposure(state.positions, DOMAIN state.positions)]

\* SharedState::update_position
update_position(state, report) ==
    LET symbol_str == format_symbol(report.symbol)
        position == IF symbol_str \in DOMAIN state.positions
                    THEN state.positions[symbol_str]
                    ELSE PositionInfo_new
        filled_quantity == report.filled_quantity
        price == dec(report.price)
        new_quantity == position.quantity + filled_quantity
        updated ==
            IF report.side = "Buy"
            THEN [position EXCEPT
                    !.avg_price =
                        IF new_quantity # 0
                        THEN dec_div(dec_add(dec_mul(position.avg_price, dec(position.quantity)),
                                             dec_mul(price, dec(filled_quantity))),
                                     dec(new_quantity))
                        ELSE @,
                    !.quantity = new_quantity]
            ELSE [position EXCEPT
                    !.quantity = @ - filled_quantity,
                    !.realized_pnl =
                        dec_add(@, dec_mul(dec_sub(price, position.avg_price),
                                           dec(filled_quantity)))]
    IN calculate_total_exposure(
           [state EXCEPT !.positions = MapInsert(@, symbol_str, updated)])

\* SharedState::update_risk_quota at the time now (seconds)
update_risk_quota(state, report, now) ==
    LET symbol_str == format_symbol(report.symbol)
        quota == IF symbol_str \in DOMAIN state.risk_quotas
                 THEN state.risk_quotas[symbol_str]
                 ELSE RiskQuota_new
        updated ==
            [quota EXCEPT
               !.current_position = @ + report.filled_quantity,
               !.current_capital = @ + report.price * report.filled_quantity,
               !.daily_trades = @ + 1,
               !.last_trade_time = Some(now),
               !.pending_orders = IF report.status = "Filled"
                                  THEN saturating_sub(@, 1) ELSE @]
    IN [state EXCEPT !.risk_quotas = MapInsert(@, symbol_str, updated)]

\* SharedState::calculate_pnl
calculate_pnl(state, report) ==
    LET symbol_str == format_symbol(report.symbol)
    IN IF symbol_str \in DOMAIN state.positions
       THEN [state EXCEPT
               !.positions[symbol_str].unrealized_pnl =
                   dec_mul(dec_sub(dec(report.price), state.positions[symbol_str].avg_price),
                           dec(state.positions[symbol_str].quantity))]
       ELSE state

\* execute_post_pipeline: update_position, update_risk_quota,
\* check_hedge_trigger (reads only), calculate_pnl, persist_state (reads only).
\* PostProcessContext::new sets should_continue and no step clears it.
execute_post_pipeline(state, report, now) ==
    calculate_pnl(update_risk_quota(update_position(state, report), report, now), report)

\* The three limits update_risk_state sets to zero on a restricted quota.
restrict_quota(quota) ==
    [quota EXCEPT !.max_position = 0, !.max_capital = 0, !.max_pending_orders = 0]

\* SharedState::update_risk_state
update_risk_state(state, summary) ==
    LET exposed == [state EXCEPT !.total_exposure = summary.total_exposure]
        by_symbol ==
            [exposed EXCEPT !.risk_quotas =
                [s \in DOMAIN @ |-> IF s \in summary.restricted_symbols
                                    THEN restrict_quota(@[s]) ELSE @[s]]]
    IN IF summary.global_restricted
       THEN [by_symbol EXCEPT !.risk_quotas = [s \in DOMAIN @ |-> restrict_quota(@[s])]]
       ELSE by_symbol

\* ====================================================== risk_state.rs
\* The part of a RiskState that get_summary hands to update_risk_state:
\* global_state.total_exposure, the symbols whose state is_restricted and
\* global_state.global_restricted.
RiskState_new ==
    [total_exposure |-> dec(0), restricted_symbols |-> {}, global_restricted |-> FALSE]

\* RiskState::get_summary
get_summary(rs) ==
    [total_exposure |-> rs.total_exposure,
     restricted_symbols |-> rs.restricted_symbols,
     global_restricted |-> rs.global_restricted]

\* GlobalRiskState::set_global_restriction
set_global_restriction(rs) == [rs EXCEPT !.global_restricted = TRUE]

\* GlobalRiskState::clear_global_restriction
clear_global_restriction(rs) == [rs EXCEPT !.global_restricted = FALSE]

\* PrePostProcessor::new
InitProc ==
    /\ shared_state = SharedState_new
    /\ risk_state = RiskState_new
    /\ risk_initializer = RiskState_new
    /\ proc_now = 0
    /\ proc_last = "new"

\* ================================================== health_tracker.rs
\* f64 scores and round-trip times are exact rationals.
\* HealthMetrics::new (connection_id, exchange, market_type and last_update are
\* left out: recalculate_health_score reads last_update right after it was set
\* to Instant::now(), so the elapsed seconds it sees are 0)
HealthMetrics_new ==
    [health_score |-> dec(100), rtt_ms |-> dec(0), success_rate |-> dec(100),
     total_messages |-> 0, total_errors |-> 0, consecutive_failures |-> 0]

dec_lt(a, b) == ~dec_ge(a, b)

\* recalculate_health_score: the RTT score
rtt_score(rtt_ms) ==
    IF dec_lt(rtt_ms, dec(10)) THEN 30
    ELSE IF dec_lt(rtt_ms, dec(50)) THEN 25
    ELSE IF dec_lt(rtt_ms, dec(100)) THEN 20
    ELSE IF dec_lt(rtt_ms, dec(200)) THEN 15
    ELSE IF dec_lt(rtt_ms, dec(500)) THEN 10
    ELSE 5

\* A penalty term that grows with the number of consecutive failures.
failure_penalty_rising(consecutive_failures) ==
    CASE consecutive_failures = 0 -> 0
      [] consecutive_failures = 1 -> 5
      [] consecutive_failures = 2 -> 10
      [] consecutive_failures = 3 -> 15
      [] OTHER -> 20

\* recalculate_health_score: the consecutive-failures term
failure_penalty(consecutive_failures) ==
    CASE consecutive_failures = 0 -> 20
      [] consecutive_failures = 1 -> 15
      [] consecutive_failures = 2 -> 10
      [] consecutive_failures = 3 -> 5
      [] OTHER -> 0

\* recalculate_health_score: the recency bonus for elapsed seconds
recency_bonus(elapsed) ==
    IF elapsed < 10 THEN 10
    ELSE IF elapsed < 30 THEN 8
    ELSE IF elapsed < 60 THEN 6
    ELSE IF elapsed < 300 THEN 4
    ELSE 2

\* f64::min and f64::max
dec_min(a, b) == IF dec_ge(a, b) THEN b ELSE a

dec_max(a, b) == IF dec_ge(a, b) THEN a ELSE b

\* HealthMetrics::recalculate_health_score
recalculate_health_score(h) ==
    LET total == h.total_messages + h.total_errors
        success_rate == IF total > 0 THEN Dec(h.total_messages * 100, total)
                        ELSE h.success_rate
        score == dec_add(dec_mul(success_rate, Dec(4, 10)),
                         dec(rtt_score(h.rtt_ms) + failure_penalty(h.consecutive_failures)
                             + recency_bonus(0)))
    IN [h EXCEPT !.success_rate = success_rate,
                 !.health_score = dec_max(dec_min(score, dec(100)), dec(0))]

\* HealthMetrics::update_success
hm_update_success(h, rtt_ms) ==
    recalculate_health_score(
        [h EXCEPT !.total_messages = @ + 1,
                  !.consecutive_failures = 0,
                  !.rtt_ms = dec_add(dec_mul(@, Dec(9, 10)), dec_mul(dec(rtt_ms), Dec(1, 10)))])

\* HealthMetrics::update_failure
hm_update_failure(h) ==
    recalculate_health_score(
        [h EXCEPT !.total_errors = @ + 1,
                  !.consecutive_failures = @ + 1])

\* HealthMetrics::is_healthy
is_healthy(h) == dec_ge(h.health_score, dec(50)) /\ h.consecutive_failures < 5

\* HealthTracker::new
InitHealth == health_metrics = << >>


\* ============================================================== binary.rs
\* A byte buffer is a sequence of 0..255.  An integer field is a number, an
\* f64 is its bit pattern written as the eight bytes of to_bits(), most
\* significant first, a string is the sequence of its code points, and a
\* DateTime<Utc> is its whole seconds since the epoch with the nanoseconds
\* inside that second.
Take(bytes, n) == SubSeq(bytes, 1, n)

Drop(bytes, n) == SubSeq(bytes, n + 1, Len(bytes))

Reverse(bytes) == [k \in 1..Len(bytes) |-> bytes[Len(bytes) + 1 - k]]

\* std::io::Result<T>
codec_ok(v) == [ok |-> TRUE, value |-> <<v>>, error |-> ""]

codec_err(msg) == [ok |-> FALSE, value |-> << >>, error |-> msg]

\* BufMut::put_u32_le, for the values below 2^31 the model uses
put_u32_le(n) ==
    <<n % 256, (n \div 256) % 256, (n \div 65536) % 256, (n \div 16777216) % 256>>

\* Buf::get_u32_le
get_u32_le(bytes) ==
    bytes[1] + 256 * (bytes[2] + 256 * (bytes[3] + 256 * bytes[4]))

\* BufMut::put_u8 / Buf::get_u8
put_u8(n) == <<n % 256>>

get_u8(bytes) == bytes[1]

\* BufMut::put_i64_le: two's complement, least significant byte first.  The
\* model's values fit 32 bits, so the upper four bytes are the sign extension.
put_i64_le(n) ==
    <<n % 256, (n \div 256) % 256, (n \div 65536) % 256, (n \div 16777216) % 256>>
    \o (IF n < 0 THEN <<255, 255, 255, 255>> ELSE <<0, 0, 0, 0>>)

\* The number whose base-256 digits, least significant first, are digits.
le_value(digits) ==
    digits[1] + 256 * (digits[2] + 256 * (digits[3] + 256 * (digits[4] + 256 *
    (digits[5] + 256 * (digits[6] + 256 * (digits[7] + 256 * digits[8]))))))

\* Buf::get_i64_le
get_i64_le(bytes) ==
    IF bytes[8] >= 128
    THEN -(1 + le_value([k \in 1..8 |-> 255 - bytes[k]]))
    ELSE le_value(Take(bytes, 8))

\* BufMut::put_u64_le / Buf::get_u64_le, for values below 2^31
put_u64_le(n) == put_u32_le(n) \o <<0, 0, 0, 0>>

get_u64_le(bytes) == le_value(Take(bytes, 8))

\* BufMut::put_f64_le / Buf::get_f64_le: the bit pattern, least significant
\* byte first.
put_f64_le(x) == Reverse(x)

get_f64_le(bytes) == Reverse(Take(bytes, 8))

\* Option<f64>: a presence flag, then the value if present.
put_option_f64(price) ==
    IF price = NoNumber THEN put_u8(0) ELSE put_u8(1) \o put_f64_le(price[1])

\* The Option<f64> read at the head of bytes, and the number of bytes it took.
get_option_f64(bytes) ==
    IF get_u8(bytes) = 1
    THEN [value |-> Some(get_f64_le(Drop(bytes, 1))), size |-> 9]
    ELSE [value |-> NoNumber, size |-> 1]

\* UTF-8 of one code point below 2^11.
utf8_char(cp) ==
    IF cp < 128 THEN <<cp>> ELSE <<192 + (cp \div 64), 128 + (cp % 64)>>

\* str::as_bytes
RECURSIVE as_bytes(_)
as_bytes(s) ==
    IF s = << >> THEN << >> ELSE utf8_char(Head(s)) \o as_bytes(Tail(s))

\* String::from_utf8 on sequences of one- and two-byte characters: Some(the
\* string), or nothing if the bytes are not valid UTF-8.
RECURSIVE from_utf8(_)
from_utf8(bytes) ==
    IF bytes = << >> THEN Some(<< >>)
    ELSE IF bytes[1] < 128
    THEN LET rest == from_utf8(Tail(bytes))
         IN IF rest = << >> THEN << >> ELSE Some(<<bytes[1]>> \o rest[1])
    ELSE IF bytes[1] \in 194..223 /\ Len(bytes) >= 2 /\ bytes[2] \in 128..191
    THEN LET rest == from_utf8(Drop(bytes, 2))
         IN IF rest = << >> THEN << >>
            ELSE Some(<<(bytes[1] - 192) * 64 + (bytes[2] - 128)>> \o rest[1])
    ELSE << >>

\* A length-prefixed string: s.len() as u32, then s.as_bytes().
put_string(s) == put_u32_le(Len(as_bytes(s))) \o as_bytes(s)

\* The length-prefixed string at the head of bytes: what from_utf8 made of
\* it, and the number of bytes it took.
get_string(bytes) ==
    LET len == get_u32_le(bytes)
    IN [value |-> from_utf8(SubSeq(bytes, 5, 4 + len)), size |-> 4 + len]

\* DateTime::timestamp_millis
timestamp_millis(t) == t.secs * 1000 + (t.nanos \div 1000000)

\* DateTime::from_timestamp_millis; every count of milliseconds the model
\* reaches is inside chrono's range, so the result is Some.
from_timestamp_millis(millis) ==
    Some([secs |-> millis \div 1000, nanos |-> (millis % 1000) * 1000000])

\* `as u32` of a fieldless enum: the position of the variant in its
\* declaration.
as_u32(variants, v) == (CHOOSE k \in 1..Len(variants) : variants[k] = v) - 1

SignalTypeVariants ==
    <<"AdaptiveSpreadDeviation", "FixedSpreadDeviation", "FundingRateDirection",
      "RealTimeFundingRisk", "OrderResponse">>

EventTypeVariants ==
    <<"OpenPosition", "ClosePosition", "HedgePosition", "CancelOrder", "ModifyOrder">>

ExchangeVariants == <<"Binance", "OKX", "Bybit", "Bitget">>

SideVariants == <<"Buy", "Sell">>

OrderTypeVariants == <<"Market", "Limit", "PostOnly">>

TriggerTypeVariants == <<"MTTrigger", "MTCloseTrigger", "HedgeTrigger">>

FundingDirectionVariants == <<"Positive", "Negative", "Neutral">>

RiskLevelVariants == <<"Low", "Medium", "High", "Critical">>

OrderResponseStatusVariants == <<"Filled", "PartiallyFilled", "Rejected", "Cancelled">>

Exchange_from_u32(value) ==
    CASE value = 0 -> codec_ok("Binance")
      [] value = 1 -> codec_ok("OKX")
      [] value = 2 -> codec_ok("Bybit")
      [] value = 3 -> codec_ok("Bitget")
      [] OTHER -> codec_err("Invalid Exchange")

Side_from_u32(value) ==
    CASE value = 0 -> codec_ok("Buy")
      [] value = 1 -> codec_ok("Sell")
      [] OTHER -> codec_err("Invalid Side")

FundingDirection_from_u32(value) ==
    CASE value = 0 -> codec_ok("Positive")
      [] value = 1 -> codec_ok("Negative")
      [] value = 2 -> codec_ok("Neutral")
      [] OTHER -> codec_err("Invalid FundingDirection")

RiskLevel_from_u32(value) ==
    CASE value = 0 -> codec_ok("Low")
      [] value = 1 -> codec_ok("Medium")
      [] value = 2 -> codec_ok("High")
      [] value = 3 -> codec_ok("Critical")
      [] OTHER -> codec_err("Invalid RiskLevel")

OrderType_from_u32(value) ==
    CASE value = 0 -> codec_ok("Market")
      [] value = 1 -> codec_ok("Limit")
      [] value = 2 -> codec_ok("PostOnly")
      [] OTHER -> codec_err("Invalid OrderType")

\* A TriggerType::from_u32 that reads the tags in the reverse order.
TriggerType_from_u32_reversed(value) ==
    CASE value = 0 -> codec_ok("HedgeTrigger")
      [] value = 1 -> codec_ok("MTCloseTrigger")
      [] value = 2 -> codec_ok("MTTrigger")
      [] OTHER -> codec_err("Invalid TriggerType")

TriggerType_from_u32(value) ==
    CASE value = 0 -> codec_ok("MTTrigger")
      [] value = 1 -> codec_ok("MTCloseTrigger")
      [] value = 2 -> codec_ok("HedgeTrigger")
      [] OTHER -> codec_err("Invalid TriggerType")

OrderResponseStatus_from_u32(value) ==
    CASE value = 0 -> codec_ok("Filled")
      [] value = 1 -> codec_ok("PartiallyFilled")
      [] value = 2 -> codec_ok("Rejected")
      [] value = 3 -> codec_ok("Cancelled")
      [] OTHER -> codec_err("Invalid OrderResponseStatus")

\* The first failure among results, in order, or else value.
first_error(results, value) ==
    IF \E k \in 1..Len(results) : ~results[k].ok
    THEN results[CHOOSE k \in 1..Len(results) :
                    ~results[k].ok /\ \A j \in 1..(k - 1) : results[j].ok]
    ELSE codec_ok(value)

\* The result of String::from_utf8(..).map_err(..)
utf8_result(decoded) ==
    IF decoded = << >> THEN codec_err("invalid utf-8") ELSE codec_ok(decoded[1])

\* The result of DateTime::from_timestamp_millis(..).ok_or_else(..)
timestamp_result(decoded) ==
    IF decoded = << >> THEN codec_err("Invalid timestamp") ELSE codec_ok(decoded[1])

\* ------------------------------------------------------------------ Signal
Signal_to_bytes(x) ==
    CASE x.type = "AdaptiveSpreadDeviation" ->
            put_u32_le(as_u32(SignalTypeVariants, "AdaptiveSpreadDeviation"))
            \o put_u32_le(x.exchange_id)
            \o put_u32_le(x.symbol_id)
            \o put_f64_le(x.spread_percentile)
            \o put_f64_le(x.current_spread)
            \o put_f64_le(x.threshold_percentile)
            \o put_i64_le(timestamp_millis(x.timestamp))
      [] x.type = "FixedSpreadDeviation" ->
            put_u32_le(as_u32(SignalTypeVariants, "FixedSpreadDeviation"))
            \o put_u32_le(x.exchange_id)
            \o put_u32_le(x.symbol_id)
            \o put_f64_le(x.current_spread)
            \o put_f64_le(x.fixed_threshold)
            \o put_i64_le(timestamp_millis(x.timestamp))
      [] x.type = "FundingRateDirection" ->
            put_u32_le(as_u32(SignalTypeVariants, "FundingRateDirection"))
            \o put_u32_le(x.exchange_id)
            \o put_u32_le(x.symbol_id)
            \o put_f64_le(x.funding_rate)
            \o put_u32_le(as_u32(FundingDirectionVariants, x.direction))
            \o put_i64_le(timestamp_millis(x.timestamp))
      [] x.type = "RealTimeFundingRisk" ->
            put_u32_le(as_u32(SignalTypeVariants, "RealTimeFundingRisk"))
            \o put_u32_le(x.exchange_id)
            \o put_u32_le(x.symbol_id)
            \o put_u32_le(as_u32(RiskLevelVariants, x.risk_level))
            \o put_f64_le(x.funding_rate)
            \o put_f64_le(x.position_cost)
            \o put_i64_le(timestamp_millis(x.timestamp))
      [] x.type = "OrderResponse" ->
            put_u32_le(as_u32(SignalTypeVariants, "OrderResponse"))
            \o put_string(x.order_id)
            \o put_u32_le(x.exchange_id)
            \o put_u32_le(x.symbol_id)
            \o put_u32_le(as_u32(OrderResponseStatusVariants, x.status))
            \o put_i64_le(timestamp_millis(x.timestamp))

\* Signal::from_bytes.  A read past the end of the buffer aborts the call;
\* the length tests below are the ones the code makes before it reads.
Signal_from_bytes(bytes) ==
    IF Len(bytes) < 4 THEN codec_err("Not enough data for signal type")
    ELSE
    LET signal_type == get_u32_le(bytes)
        b == Drop(bytes, 4)
    IN
    CASE signal_type = 0 ->
            IF Len(b) < 36 THEN codec_err("Not enough data for AdaptiveSpreadDeviation")
            ELSE LET timestamp == timestamp_result(from_timestamp_millis(get_i64_le(Drop(b, 32))))
                 IN first_error(<<timestamp>>,
                       [type |-> "AdaptiveSpreadDeviation",
                        exchange_id |-> get_u32_le(b),
                        symbol_id |-> get_u32_le(Drop(b, 4)),
                        spread_percentile |-> get_f64_le(Drop(b, 8)),
                        current_spread |-> get_f64_le(Drop(b, 16)),
                        threshold_percentile |-> get_f64_le(Drop(b, 24)),
                        timestamp |-> timestamp.value[1]])
      [] signal_type = 1 ->
            IF Len(b) < 28 THEN codec_err("Not enough data for FixedSpreadDeviation")
            ELSE LET timestamp == timestamp_result(from_timestamp_millis(get_i64_le(Drop(b, 24))))
                 IN first_error(<<timestamp>>,
                       [type |-> "FixedSpreadDeviation",
                        exchange_id |-> get_u32_le(b),
                        symbol_id |-> get_u32_le(Drop(b, 4)),
                        current_spread |-> get_f64_le(Drop(b, 8)),
                        fixed_threshold |-> get_f64_le(Drop(b, 16)),
                        timestamp |-> timestamp.value[1]])
      [] signal_type = 2 ->
            IF Len(b) < 24 THEN codec_err("Not enough data for FundingRateDirection")
            ELSE LET direction == FundingDirection_from_u32(get_u32_le(Drop(b, 16)))
                     timestamp == timestamp_result(from_timestamp_millis(get_i64_le(Drop(b, 20))))
                 IN first_error(<<direction, timestamp>>,
                       [type |-> "FundingRateDirection",
                        exchange_id |-> get_u32_le(b),
                        symbol_id |-> get_u32_le(Drop(b, 4)),
                        funding_rate |-> get_f64_le(Drop(b, 8)),
                        direction |-> direction.value[1],
                        timestamp |-> timestamp.value[1]])
      [] signal_type = 3 ->
            IF Len(b) < 32 THEN codec_err("Not enough data for RealTimeFundingRisk")
            ELSE LET risk_level == RiskLevel_from_u32(get_u32_le(Drop(b, 8)))
                     timestamp == timestamp_result(from_timestamp_millis(get_i64_le(Drop(b, 28))))
                 IN first_error(<<risk_level, timestamp>>,
                       [type |-> "RealTimeFundingRisk",
                        exchange_id |-> get_u32_le(b),
                        symbol_id |-> get_u32_le(Drop(b, 4)),
                        risk_level |-> risk_level.value[1],
                        funding_rate |-> get_f64_le(Drop(b, 12)),
                        position_cost |-> get_f64_le(Drop(b, 20)),
                        timestamp |-> timestamp.value[1]])
      [] signal_type = 4 ->
            IF Len(b) < 4 THEN codec_err("Not enough data for OrderResponse")
            ELSE IF Len(b) - 4 < get_u32_le(b) + 16
            THEN codec_err("Not enough data for OrderResponse fields")
            ELSE LET order_id == get_string(b)
                     rest == Drop(b, order_id.size)
                     status == OrderResponseStatus_from_u32(get_u32_le(Drop(rest, 8)))
                     timestamp == timestamp_result(from_timestamp_millis(get_i64_le(Drop(rest, 12))))
                 IN first_error(<<utf8_result(order_id.value), status, timestamp>>,
                       [type |-> "OrderResponse",
                        order_id |-> order_id.value[1],
                        exchange_id |-> get_u32_le(rest),
                        symbol_id |-> get_u32_le(Drop(rest, 4)),
                        status |-> status.value[1],
                        timestamp |-> timestamp.value[1]])
      [] OTHER -> codec_err("Invalid signal type")

\* ------------------------------------------------------------ TradingEvent
TradingEvent_to_bytes(e) ==
    CASE e.type \in {"OpenPosition", "ClosePosition"} ->
            put_u32_le(as_u32(EventTypeVariants, e.type))
            \o put_u32_le(e.symbol)
            \o put_u32_le(as_u32(ExchangeVariants, e.exchange))
            \o put_u32_le(as_u32(SideVariants, e.side))
            \o put_f64_le(e.quantity)
            \o put_u32_le(as_u32(OrderTypeVariants, e.order_type))
            \o put_option_f64(e.price)
            \o put_u32_le(as_u32(TriggerTypeVariants, e.trigger_type))
            \o put_string(e.reason)
            \o put_i64_le(timestamp_millis(e.timestamp))
      [] e.type = "HedgePosition" ->
            put_u32_le(as_u32(EventTypeVariants, "HedgePosition"))
            \o put_u32_le(e.symbol)
            \o put_u32_le(as_u32(ExchangeVariants, e.primary_exchange))
            \o put_u32_le(as_u32(ExchangeVariants, e.hedge_exchange))
            \o put_u32_le(as_u32(SideVariants, e.side))
            \o put_f64_le(e.quantity)
            \o put_u32_le(as_u32(TriggerTypeVariants, e.trigger_type))
            \o put_string(e.reason)
            \o put_i64_le(timestamp_millis(e.timestamp))
      [] e.type = "CancelOrder" ->
            put_u32_le(as_u32(EventTypeVariants, "CancelOrder"))
            \o put_string(e.order_id)
            \o put_u32_le(e.symbol)
            \o put_u32_le(as_u32(ExchangeVariants, e.exchange))
            \o put_string(e.reason)
            \o put_i64_le(timestamp_millis(e.timestamp))
      [] e.type = "ModifyOrder" ->
            put_u32_le(as_u32(EventTypeVariants, "ModifyOrder"))
            \o put_string(e.order_id)
            \o put_u32_le(e.symbol)
            \o put_u32_le(as_u32(ExchangeVariants, e.exchange))
            \o put_option_f64(e.new_price)
            \o put_option_f64(e.new_quantity)
            \o put_string(e.reason)
            \o put_i64_le(timestamp_millis(e.timestamp))

\* The arms 0 and 1 of TradingEvent::from_bytes, which read the same layout.
open_close_from_bytes(type, b) ==
    LET exchange == Exchange_from_u32(get_u32_le(Drop(b, 4)))
        side == Side_from_u32(get_u32_le(Drop(b, 8)))
        order_type == OrderType_from_u32(get_u32_le(Drop(b, 20)))
        price == get_option_f64(Drop(b, 24))
        b2 == Drop(b, 24 + price.size)
        trigger_type == TriggerType_from_u32(get_u32_le(b2))
        reason == get_string(Drop(b2, 4))
        timestamp == timestamp_result(
            from_timestamp_millis(get_i64_le(Drop(b2, 4 + reason.size))))
    IN first_error(<<exchange, side, order_type, trigger_type,
                     utf8_result(reason.value), timestamp>>,
          [type |-> type,
           symbol |-> get_u32_le(b),
           exchange |-> exchange.value[1],
           side |-> side.value[1],
           quantity |-> get_f64_le(Drop(b, 12)),
           order_type |-> order_type.value[1],
           price |-> price.value,
           trigger_type |-> trigger_type.value[1],
           reason |-> reason.value[1],
           timestamp |-> timestamp.value[1]])

\* TradingEvent::from_bytes
TradingEvent_from_bytes(bytes) ==
    IF Len(bytes) < 4 THEN codec_err("Not enough data for event type")
    ELSE
    LET event_type == get_u32_le(bytes)
        b == Drop(bytes, 4)
    IN
    CASE event_type = 0 -> open_close_from_bytes("OpenPosition", b)
      [] event_type = 1 -> open_close_from_bytes("ClosePosition", b)
      [] event_type = 2 ->
            LET primary_exchange == Exchange_from_u32(get_u32_le(Drop(b, 4)))
                hedge_exchange == Exchange_from_u32(get_u32_le(Drop(b, 8)))
                side == Side_from_u32(get_u32_le(Drop(b, 12)))
                trigger_type == TriggerType_from_u32(get_u32_le(Drop(b, 24)))
                reason == get_string(Drop(b, 28))
                timestamp == timestamp_result(
                    from_timestamp_millis(get_i64_le(Drop(b, 28 + reason.size))))
            IN first_error(<<primary_exchange, hedge_exchange, side, trigger_type,
                             utf8_result(reason.value), timestamp>>,
                  [type |-> "HedgePosition",
                   symbol |-> get_u32_le(b),
                   primary_exchange |-> primary_exchange.value[1],
                   hedge_exchange |-> hedge_exchange.value[1],
                   side |-> side.value[1],
                   quantity |-> get_f64_le(Drop(b, 16)),
                   trigger_type |-> trigger_type.value[1],
                   reason |-> reason.value[1],
                   timestamp |-> timestamp.value[1]])
      [] event_type = 3 ->
            LET order_id == get_string(b)
                b2 == Drop(b, order_id.size)
                exchange == Exchange_from_u32(get_u32_le(Drop(b2, 4)))
                reason == get_string(Drop(b2, 8))
                timestamp == timestamp_result(
                    from_timestamp_millis(get_i64_le(Drop(b2, 8 + reason.size))))
            IN first_error(<<utf8_result(order_id.value), exchange,
                             utf8_result(reason.value), timestamp>>,
                  [type |-> "CancelOrder",
                   order_id |-> order_id.value[1],
                   symbol |-> get_u32_le(b2),
                   exchange |-> exchange.value[1],
                   reason |-> reason.value[1],
                   timestamp |-> timestamp.value[1]])
      [] event_type = 4 ->
            LET order_id == get_string(b)
                b2 == Drop(b, order_id.size)
                exchange == Exchange_from_u32(get_u32_le(Drop(b2, 4)))
                new_price == get_option_f64(Drop(b2, 8))
                new_quantity == get_option_f64(Drop(b2, 8 + new_price.size))
                b3 == Drop(b2, 8 + new_price.size + new_quantity.size)
                reason == get_string(b3)
                timestamp == timestamp_result(
                    from_timestamp_millis(get_i64_le(Drop(b3, reason.size))))
            IN first_error(<<utf8_result(order_id.value), exchange,
                             utf8_result(reason.value), timestamp>>,
                  [type |-> "ModifyOrder",
                   order_id |-> order_id.value[1],
                   symbol |-> get_u32_le(b2),
                   exchange |-> exchange.value[1],
                   new_price |-> new_price.value,
                   new_quantity |-> new_quantity.value,
                   reason |-> reason.value[1],
                   timestamp |-> timestamp.value[1]])
      [] OTHER -> codec_err("Invalid event type")

\* ------------------------------------------------------------ EventMessage
EventMessage_to_bytes(m) ==
    TradingEvent_to_bytes(m.event)
    \o put_u64_le(m.sequence_id)
    \o put_i64_le(timestamp_millis(m.timestamp))

EventMessage_from_bytes(bytes) ==
    LET total_len == Len(bytes) IN
    IF total_len < 16 THEN codec_err("Not enough data for EventMessage")
    ELSE LET event_bytes == Take(bytes, total_len - 16)
             metadata_bytes == Drop(bytes, total_len - 16)
             event == TradingEvent_from_bytes(event_bytes)
             timestamp == timestamp_result(
                 from_timestamp_millis(get_i64_le(Drop(metadata_bytes, 8))))
         IN first_error(<<event, timestamp>>,
               [event |-> event.value[1],
                sequence_id |-> get_u64_le(metadata_bytes),
                timestamp |-> timestamp.value[1]])

InitCodec ==
    /\ codec_type = "none"
    /\ codec_value = << >>
    /\ codec_bytes = << >>
    /\ codec_again = << >>
    /\ codec_result = << >>

\* ======================================= signal-collector: table, triggers
\* SignalManager::signal_type_to_idx
signal_type_to_idx(signal_type) ==
    CASE signal_type = "AdaptiveSpreadDeviation" -> 0
      [] signal_type = "FixedSpreadDeviation" -> 1
      [] signal_type = "FundingRateDirection" -> 2
      [] signal_type = "RealTimeFundingRisk" -> 3
      [] signal_type = "OrderResponse" -> 4
      [] signal_type = "Arbitrage" -> 5
      [] signal_type = "Market" -> 6
      [] signal_type = "Hedge" -> 7

\* The indices of SignalManager.signals, as SignalManager::new fills it.
SignalIndices == 0 .. 7

\* Option<Signal>::None
NoLastSignal == << >>

\* SignalManager::update_signal on the last_signal column
update_signal(last, signal) ==
    LET idx == signal_type_to_idx(signal.signal_type)
    IN IF idx \in DOMAIN last THEN [last EXCEPT ![idx] = <<signal>>] ELSE last

\* Vec::contains
seq_contains(s, x) == \E i \in 1 .. Len(s) : s[i] = x

\* SignalManager::register_trigger on the trigger_indices column
register_trigger(triggers, signal_idx, trigger_idx) ==
    IF signal_idx \in DOMAIN triggers /\ ~seq_contains(triggers[signal_idx], trigger_idx)
    THEN [triggers EXCEPT ![signal_idx] = Append(@, trigger_idx)]
    ELSE triggers

\* SignalManager::unregister_trigger on the trigger_indices column
unregister_trigger(triggers, signal_idx, trigger_idx) ==
    IF signal_idx \in DOMAIN triggers
    THEN [triggers EXCEPT ![signal_idx] = SelectSeq(@, LAMBDA idx : idx # trigger_idx)]
    ELSE triggers

\* SignalManager::get_last_signal_by_type
get_last_signal_by_type(last, signal_type) ==
    LET idx == signal_type_to_idx(signal_type)
    IN IF idx \in DOMAIN last THEN last[idx] ELSE NoLastSignal

\* SignalManager::get_trigger_indices_for_signal
get_trigger_indices_for_signal(triggers, signal_type) ==
    LET idx == signal_type_to_idx(signal_type)
    IN IF idx \in DOMAIN triggers THEN triggers[idx] ELSE << >>

\* TriggerRegistry.triggers after register_default_triggers, by index from 0.
DefaultTriggers == <<"MTTrigger", "MTCloseTrigger", "HedgeTrigger">>

\* What register_default_triggers returns: each trigger index with the
\* signal indices it depends on.
trigger_mappings ==
    <<[trigger_idx |-> 0, signal_indices |-> <<0, 1, 2>>],
      [trigger_idx |-> 1, signal_indices |-> <<3, 0, 1>>],
      [trigger_idx |-> 2, signal_indices |-> <<0, 1>>]>>

RECURSIVE register_all(_, _, _, _)
\* The two loops of main over trigger_mappings, from mapping m and its
\* signal index number s on.
register_all(triggers, mappings, m, s) ==
    IF m > Len(mappings) THEN triggers
    ELSE IF s > Len(mappings[m].signal_indices)
    THEN register_all(triggers, mappings, m + 1, 1)
    ELSE register_all(register_trigger(triggers, mappings[m].signal_indices[s],
                                       mappings[m].trigger_idx),
                      mappings, m, s + 1)

\* Option<TradingEvent>::None
NoEvent == << >>

\* Spread percentiles are kept in hundredths and funding rates in units of
\* 0.00001, so that 0.8 is 80 and 0.0001 is 10.
\* MTTrigger::evaluate
MTTrigger_evaluate(last, signal) ==
    LET spread == get_last_signal_by_type(last, "AdaptiveSpreadDeviation")
    IN IF signal.signal_type = "FundingRateDirection"
          /\ spread # NoLastSignal
          /\ spread[1].spread_percentile > 80
          /\ abs(signal.funding_rate) > 10
          /\ signal.direction \in {"Positive", "Negative"}
       THEN <<[event_type |-> "OpenPosition",
               symbol |-> signal.symbol_id,
               side |-> IF signal.direction = "Positive" THEN "Sell" ELSE "Buy",
               quantity |-> 100,
               trigger_type |-> "MTTrigger"]>>
       ELSE NoEvent

\* Trigger::evaluate of the trigger the registry holds at trigger_idx
evaluate(registry, trigger_idx, last, signal) ==
    CASE registry[trigger_idx + 1] = "MTTrigger" -> MTTrigger_evaluate(last, signal)
      [] registry[trigger_idx + 1] = "MTCloseTrigger" -> NoEvent
      [] registry[trigger_idx + 1] = "HedgeTrigger" -> NoEvent

RECURSIVE evaluate_from(_, _, _, _, _)
\* The for loop of main over trigger_indices from position i on: for every
\* index the registry knows, the trigger evaluated, the last signal of the
\* inbound signal's kind it found in the table, and what it returned.
evaluate_from(registry, trigger_indices, i, last, signal) ==
    IF i > Len(trigger_indices) THEN << >>
    ELSE LET trigger_idx == trigger_indices[i]
             rest == evaluate_from(registry, trigger_indices, i + 1, last, signal)
         IN IF trigger_idx + 1 \in DOMAIN registry
            THEN <<[trigger_idx |-> trigger_idx,
                    saw |-> get_last_signal_by_type(last, signal.signal_type),
                    event |-> evaluate(registry, trigger_idx, last, signal)]>> \o rest
            ELSE rest

\* The events send_event is called with, in order.
sent_events(evaluated) ==
    LET some == SelectSeq(evaluated, LAMBDA e : e.event # NoEvent)
    IN [i \in 1 .. Len(some) |-> some[i].event[1]]

\* main up to the dispatch loop: SignalManager::new and the default
\* registrations.
InitCollector ==
    /\ sig_last = [i \in SignalIndices |-> NoLastSignal]
    /\ sig_triggers = register_all([i \in SignalIndices |-> << >>], trigger_mappings, 1, 1)
    /\ col_op = "new"
    /\ col_signal = NoLastSignal
    /\ col_evaluated = << >>
    /\ col_published = << >>
    /\ col_received = [i \in SignalIndices |-> {}]

\* ============================== trading-engine: outcome of execute
\* executor::types::OrderStatus
EngineOrderStatus == {"New", "PartiallyFilled", "Filled", "Canceled", "Rejected", "Expired"}

\* Option<String>::None of OrderResponse.error
NoError == << >>

\* The key of max_by_key in select_best_response.
status_key(status) ==
    CASE status = "Filled" -> 6
      [] status = "PartiallyFilled" -> 5
      [] status = "New" -> 4
      [] status = "Canceled" -> 3
      [] status = "Expired" -> 2
      [] status = "Rejected" -> 1

\* Option<OrderResponse>::None
NoResponse == << >>

RECURSIVE max_by_key(_, _, _)
\* Iterator::max_by_key over the responses from position i on, best being
\* the maximum so far: of several maximal elements the last one is returned.
max_by_key(responses, i, best) ==
    IF i > Len(responses) THEN best
    ELSE max_by_key(responses, i + 1,
                    IF best = NoResponse
                       \/ status_key(responses[i].status) >= status_key(best[1].status)
                    THEN <<responses[i]>>
                    ELSE best)

\* A select_best_response that does not filter out responses with an error.
select_best_response_unfiltered(responses) ==
    max_by_key(responses, 1, NoResponse)

\* ResponseHandler::select_best_response
select_best_response(responses) ==
    max_by_key(SelectSeq(responses, LAMBDA r : r.error = NoError), 1, NoResponse)

\* execute: success of the ExecutionResult for the selected response
execution_success(selected_response) ==
    IF selected_response = NoResponse THEN FALSE
    ELSE selected_response[1].status \in {"New", "PartiallyFilled", "Filled"}

\* No execute call has reached its responses yet.
InitResponse ==
    /\ resp_responses = << >>
    /\ resp_selected = NoResponse
    /\ resp_success = FALSE

\* ========================================== health/connection_selector.rs
\* enum SelectionStrategy
SelectionStrategy == {"RoundRobin", "HealthScore", "LeastLatency", "Random"}

\* The selector has not been constructed.
NoStrategy == "none"

\* HealthMetrics::new with its connection_id, exchange and market_type
HealthMetrics_of(connection_id, exchange, market_type) ==
    [connection_id |-> connection_id, exchange |-> exchange, market_type |-> market_type]
        @@ HealthMetrics_new

\* The comparators of the two sort_by calls: a goes strictly before b.
sorts_before(a, b, field) ==
    IF field = "health_score" THEN dec_lt(b.health_score, a.health_score)
    ELSE dec_lt(a.rtt_ms, b.rtt_ms)

RECURSIVE sort_insert(_, _, _)
\* x put into the sorted t behind every element it does not go strictly before.
sort_insert(t, x, field) ==
    IF t = << >> THEN <<x>>
    ELSE IF sorts_before(x, Head(t), field) THEN <<x>> \o t
    ELSE <<Head(t)>> \o sort_insert(Tail(t), x, field)

RECURSIVE sort_by(_, _)
\* slice::sort_by, a stable sort
sort_by(s, field) ==
    IF s = << >> THEN << >>
    ELSE sort_insert(sort_by(SubSeq(s, 1, Len(s) - 1), field), s[Len(s)], field)

\* A get_healthy_connections that tests min_score alone.
get_healthy_connections_by_score(metrics, order, exchange, market_type, min_score) ==
    sort_by(
        SelectSeq([i \in 1 .. Len(order) |-> metrics[order[i]]],
                  LAMBDA m : /\ m.exchange = exchange
                             /\ m.market_type = market_type
                             /\ dec_ge(m.health_score, dec(min_score))),
        "health_score")

\* HealthTracker::get_healthy_connections, metrics.iter() visiting in order
get_healthy_connections(metrics, order, exchange, market_type, min_score) ==
    sort_by(
        SelectSeq([i \in 1 .. Len(order) |-> metrics[order[i]]],
                  LAMBDA m : /\ m.exchange = exchange
                             /\ m.market_type = market_type
                             /\ dec_ge(m.health_score, dec(min_score))
                             /\ is_healthy(m)),
        "health_score")

\* Vec::truncate and Iterator::take
take(s, k) == SubSeq(s, 1, IF k < Len(s) THEN k ELSE Len(s))

\* HealthTracker::get_top_k_connections
get_top_k_connections(metrics, order, exchange, market_type, k) ==
    take(get_healthy_connections(metrics, order, exchange, market_type, 0), k)

\* map(|m| m.connection_id)
connection_ids_of(connections) ==
    [i \in 1 .. Len(connections) |-> connections[i].connection_id]

\* select_round_robin: the key of round_robin_indices
round_robin_key(exchange, market_type) == exchange \o "_" \o market_type

RECURSIVE round_robin_loop(_, _, _, _)
\* select_round_robin: the for loop with `left` rounds to go; the selected
\* ids and the index it leaves behind
round_robin_loop(connections, index, left, selected) ==
    IF left = 0 THEN [selected |-> selected, index |-> index]
    ELSE round_robin_loop(connections,
                          (index + 1) % Len(connections),
                          left - 1,
                          Append(selected, connections[(index % Len(connections)) + 1].connection_id))

\* ConnectionSelector::select_round_robin: the selected ids and the indices
select_round_robin(metrics, order, indices, exchange, market_type, count) ==
    LET connections == get_healthy_connections(metrics, order, exchange, market_type, 30)
        key == round_robin_key(exchange, market_type)
        index == IF key \in DOMAIN indices THEN indices[key] ELSE 0
        rounds == IF count < Len(connections) THEN count ELSE Len(connections)
        done == round_robin_loop(connections, index, rounds, << >>)
    IN IF connections = << >> THEN [selected |-> << >>, indices |-> indices]
       ELSE [selected |-> done.selected, indices |-> MapInsert(indices, key, done.index)]

\* ConnectionSelector::select_by_health
select_by_health(metrics, order, exchange, market_type, count) ==
    connection_ids_of(get_top_k_connections(metrics, order, exchange, market_type, count))

\* ConnectionSelector::select_by_latency
select_by_latency(metrics, order, exchange, market_type, count) ==
    connection_ids_of(
        take(sort_by(get_healthy_connections(metrics, order, exchange, market_type, 30), "rtt_ms"),
             count))

\* The orders a shuffle can leave the ids in.
shuffles(ids) ==
    {p \in [1 .. Len(ids) -> {ids[i] : i \in 1 .. Len(ids)}] :
        \A i, j \in 1 .. Len(ids) : i # j => p[i] # p[j]}

\* ConnectionSelector::select_random: every result the shuffle allows
select_random(metrics, order, exchange, market_type, count) ==
    {take(p, count) :
        p \in shuffles(connection_ids_of(
                 get_healthy_connections(metrics, order, exchange, market_type, 30)))}

\* No select_connections call yet.
NoCall == << >>

\* HealthTracker::new; the selector is not constructed yet.
InitSelector ==
    /\ sel_metrics = << >>
    /\ sel_order = << >>
    /\ sel_strategy = NoStrategy
    /\ sel_indices = << >>
    /\ sel_last = NoCall
    /\ sel_log = << >>
\* ================= executor.rs: connection selection and health updates
\* The connection ids the tracker holds.
RecConnections == {"c1", "c2"}

\* HealthTracker::update_success: nothing happens for an unregistered id
tracker_update_success(metrics, connection_id, rtt_ms) ==
    IF connection_id \in DOMAIN metrics
    THEN [metrics EXCEPT ![connection_id] = hm_update_success(@, rtt_ms)]
    ELSE metrics

\* HealthTracker::update_failure: nothing happens for an unregistered id
tracker_update_failure(metrics, connection_id) ==
    IF connection_id \in DOMAIN metrics
    THEN [metrics EXCEPT ![connection_id] = hm_update_failure(@)]
    ELSE metrics

\* ConnectionSelector::select_connections: every outcome the strategy allows,
\* the selected ids and the round-robin indices afterwards
select_connections(metrics, order, indices, strategy, exchange, market_type, count) ==
    CASE strategy = "RoundRobin" ->
            {select_round_robin(metrics, order, indices, exchange, market_type, count)}
      [] strategy = "HealthScore" ->
            {[selected |-> select_by_health(metrics, order, exchange, market_type, count),
              indices |-> indices]}
      [] strategy = "LeastLatency" ->
            {[selected |-> select_by_latency(metrics, order, exchange, market_type, count),
              indices |-> indices]}
      [] OTHER ->
            {[selected |-> result, indices |-> indices] :
                result \in select_random(metrics, order, exchange, market_type, count)}

RECURSIVE send_concurrent(_, _, _, _)
\* OrderExecutor::send_concurrent: the tracker after the futures of the
\* selected connections have run.  A send that returns Ok within the timeout
\* ends in update_success with the time it took, a send that returns Err or
\* runs into the timeout ends in update_failure.  The ids are pairwise
\* distinct, so the order in which the futures finish does not matter.
send_concurrent(metrics, connection_ids, delivers, rtt_ms) ==
    IF connection_ids = << >> THEN metrics
    ELSE LET conn_id == Head(connection_ids)
         IN send_concurrent(
                IF delivers[conn_id] THEN tracker_update_success(metrics, conn_id, rtt_ms)
                ELSE tracker_update_failure(metrics, conn_id),
                Tail(connection_ids), delivers, rtt_ms)

\* Every connection is up when the engine starts.
InitRecover ==
    /\ rec_delivers = [c \in RecConnections |-> TRUE]
    /\ rec_executed = 0
\* ================================================= ws_pool: the runners
\* One runner of each kind that run() is written for.
WsRunners == {"binance", "okex"}

\* enum ConnectionState
ConnectionState == {"Connecting", "Connected", "Disconnected", "Error"}

\* No send_concurrent future has run yet.
NoSend == [id |-> "", state |-> "", result |-> "", health |-> ""]

\* WsPool::new and create_connection: the channel holds false, every
\* receiver is a clone that has seen it, every runner is spawned and stands
\* at the top of run()'s loop. The pool keeps base.clone(), taken while
\* command_tx is None, and the runner gets base itself.
InitWs ==
    /\ ws_shutdown = FALSE
    /\ ws_seen = [r \in WsRunners |-> TRUE]
    /\ ws_pc = [r \in WsRunners |-> "connect"]
    /\ ws_state = [r \in WsRunners |-> "Disconnected"]
    /\ ws_waiting_pong = [r \in WsRunners |-> FALSE]
    /\ ws_deadline = [r \in WsRunners |-> 0]
    /\ ws_idle = [r \in WsRunners |-> 0]
    /\ ws_quiet = [r \in WsRunners |-> 0]
    /\ ws_forwarded = [r \in WsRunners |-> {}]
    /\ ws_command_tx = [r \in WsRunners |-> FALSE]
    /\ ws_pool_command_tx = [r \in WsRunners |-> FALSE]
    /\ ws_send = NoSend

\* run: set_state(Connecting) and connect_async; a failure sets Error and
\* starts the 5 s sleep.
WsConnect(r, ok) ==
    /\ ws_pc[r] = "connect"
    /\ ws_state' = [ws_state EXCEPT ![r] = IF ok THEN "Connecting" ELSE "Error"]
    /\ ws_pc' = [ws_pc EXCEPT ![r] = IF ok THEN "subscribe" ELSE "error_sleep"]
    /\ UNCHANGED <<ws_shutdown, ws_seen, wsKeepalive, ws_forwarded, wsCommand, exceptWs>>

\* run: the sleep after a failed connect ends; continue
WsErrorSleepDone(r) ==
    /\ ws_pc[r] = "error_sleep"
    /\ ws_pc' = [ws_pc EXCEPT ![r] = "connect"]
    /\ UNCHANGED <<ws_shutdown, ws_seen, ws_state, wsKeepalive, ws_forwarded, wsCommand,
                   exceptWs>>

\* reset_timer = Instant::now() + 25 s (ping_send_timer on Binance)
ws_timer_set(r) == ws_deadline' = [ws_deadline EXCEPT ![r] = PingTicks]

\* run: the subscription message is sent; on failure continue, otherwise
\* set_state(Connected), set_command_tx on the runner's own BaseConnection,
\* and enter the select loop with the timer set and waiting_pong = false
WsSubscribe(r, ok) ==
    /\ ws_pc[r] = "subscribe"
    /\ ws_pc' = [ws_pc EXCEPT ![r] = IF ok THEN "select" ELSE "connect"]
    /\ ws_state' = [ws_state EXCEPT ![r] = IF ok THEN "Connected" ELSE @]
    /\ IF ok
       THEN /\ ws_waiting_pong' = [ws_waiting_pong EXCEPT ![r] = FALSE]
            /\ ws_timer_set(r)
            /\ ws_idle' = [ws_idle EXCEPT ![r] = 0]
            /\ ws_quiet' = [ws_quiet EXCEPT ![r] = 0]
            /\ ws_command_tx' = [ws_command_tx EXCEPT ![r] = TRUE]
       ELSE UNCHANGED <<wsKeepalive, ws_command_tx>>
    /\ UNCHANGED <<ws_shutdown, ws_seen, ws_forwarded, ws_pool_command_tx, ws_send, exceptWs>>

\* run: break out of the select loop: set_state(Disconnected) and the 5 s
\* sleep before reconnecting (the clock readings are of no use until the
\* next connection)
ws_break(r) ==
    /\ ws_pc' = [ws_pc EXCEPT ![r] = "reconnect_sleep"]
    /\ ws_state' = [ws_state EXCEPT ![r] = "Disconnected"]
    /\ ws_deadline' = [ws_deadline EXCEPT ![r] = 0]
    /\ ws_idle' = [ws_idle EXCEPT ![r] = 0]
    /\ ws_quiet' = [ws_quiet EXCEPT ![r] = 0]
    /\ UNCHANGED ws_waiting_pong

\* select: shutdown_rx.changed() is ready when the channel holds a value the
\* receiver has not seen; the runner returns if the value is true.
WsShutdownChanged(r) ==
    /\ ws_pc[r] = "select"
    /\ ~ws_seen[r]
    /\ ws_seen' = [ws_seen EXCEPT ![r] = TRUE]
    /\ ws_pc' = [ws_pc EXCEPT ![r] = IF ws_shutdown THEN "terminated" ELSE @]
    /\ UNCHANGED <<ws_shutdown, ws_state, wsKeepalive, ws_forwarded, wsCommand, exceptWs>>

\* A tick of the clock passes for a runner at its select; the timer's
\* deadline is not overrun (sleep_until is ready when it is reached). The
\* readings stop one tick past the period.
WsElapse(r) ==
    /\ ws_pc[r] = "select"
    /\ ws_deadline[r] > 0
    /\ ws_deadline' = [ws_deadline EXCEPT ![r] = @ - 1]
    /\ ws_idle' = [ws_idle EXCEPT ![r] = IF @ > PingTicks THEN @ ELSE @ + 1]
    /\ ws_quiet' = [ws_quiet EXCEPT ![r] = IF @ > PingTicks THEN @ ELSE @ + 1]
    /\ UNCHANGED <<ws_shutdown, ws_seen, ws_pc, ws_state, ws_waiting_pong, ws_forwarded,
                   wsCommand, exceptWs>>

\* select: the timer fires. Binance: ping timeout, break. OKEx: break if a
\* pong is outstanding, otherwise send a ping (break if the send fails), set
\* the timer again and wait for the pong.
WsTimer(r, sent) ==
    /\ ws_pc[r] = "select"
    /\ ws_deadline[r] = 0
    /\ IF r = "binance" \/ ws_waiting_pong[r] \/ ~sent
       THEN ws_break(r)
       ELSE /\ ws_waiting_pong' = [ws_waiting_pong EXCEPT ![r] = TRUE]
            /\ ws_timer_set(r)
            /\ ws_idle' = [ws_idle EXCEPT ![r] = 0]
            /\ ws_quiet' = [ws_quiet EXCEPT ![r] = 0]
            /\ UNCHANGED <<ws_pc, ws_state>>
    /\ UNCHANGED <<ws_shutdown, ws_seen, ws_forwarded, wsCommand, exceptWs>>

\* What read.next() yields: data (a text other than "pong", or a binary
\* frame), a pong (the text "pong" on OKEx, a Pong frame on Binance), a
\* close frame, or an error.
WsMessages == {"data", "pong", "close", "error"}

\* A handle_message that passes the pong on like any other text.
forwards_pong_too(r, msg) == msg \in {"data", "pong"}

\* handle_message: whether the message is sent on message_tx
forwards(r, msg) == msg = "data"

\* select: a WebSocket message. A close frame and an error break. The OKEx
\* runner, waiting for a pong, takes "pong" itself: it clears waiting_pong,
\* sets the timer and continues. Everything else goes to handle_message, and
\* then the timer is set again, on OKEx only while no pong is outstanding.
WsMessage(r, msg) ==
    /\ ws_pc[r] = "select"
    /\ IF msg \in {"close", "error"}
       THEN ws_break(r) /\ UNCHANGED ws_forwarded
       ELSE IF r = "okex" /\ msg = "pong" /\ ws_waiting_pong[r]
       THEN /\ ws_waiting_pong' = [ws_waiting_pong EXCEPT ![r] = FALSE]
            /\ ws_timer_set(r)
            /\ ws_quiet' = [ws_quiet EXCEPT ![r] = 0]
            /\ UNCHANGED <<ws_pc, ws_state, ws_idle, ws_forwarded>>
       ELSE /\ ws_forwarded' =
                  [ws_forwarded EXCEPT ![r] = IF forwards(r, msg) THEN @ \cup {msg} ELSE @]
            /\ IF r = "okex" /\ ws_waiting_pong[r]
               THEN UNCHANGED ws_deadline
               ELSE ws_timer_set(r)
            /\ ws_quiet' = [ws_quiet EXCEPT ![r] = 0]
            /\ UNCHANGED <<ws_pc, ws_state, ws_waiting_pong, ws_idle>>
    /\ UNCHANGED <<ws_shutdown, ws_seen, wsCommand, exceptWs>>

\* run: the sleep after a disconnect ends; the loop starts over
WsReconnectSleepDone(r) ==
    /\ ws_pc[r] = "reconnect_sleep"
    /\ ws_pc' = [ws_pc EXCEPT ![r] = "connect"]
    /\ UNCHANGED <<ws_shutdown, ws_seen, ws_state, wsKeepalive, ws_forwarded, wsCommand,
                   exceptWs>>

\* WsPool::shutdown: shutdown_tx.send(true); no receiver has seen the value
WsPoolShutdown ==
    /\ ws_shutdown' = TRUE
    /\ ws_seen' = [r \in WsRunners |-> FALSE]
    /\ UNCHANGED <<ws_pc, ws_state, wsKeepalive, ws_forwarded, wsCommand, exceptWs>>

\* BaseConnection::send_command on the pool's BaseConnection
send_command(id) == IF ws_pool_command_tx[id] THEN "Ok" ELSE "Err"

\* WsPool::send_to_connection: connections.get(id), then send_command
send_to_connection(id) == IF id \in WsRunners THEN send_command(id) ELSE "Err"

\* One future of OrderExecutor::send_concurrent: send_to_connection on the
\* connection, then update_success for Ok and update_failure for Err. (The
\* sender of the channel that a runner's select reads is held by the runner's
\* own BaseConnection alone, so the select's command branch is never ready
\* and is no action here.)
WsSendConcurrent(id) ==
    /\ ws_send' = [id |-> id,
                   state |-> IF id \in WsRunners THEN ws_state[id] ELSE "",
                   result |-> send_to_connection(id),
                   health |-> IF send_to_connection(id) = "Ok" THEN "update_success"
                              ELSE "update_failure"]
    /\ UNCHANGED <<ws_shutdown, ws_seen, ws_pc, ws_state, wsKeepalive, ws_forwarded,
                   ws_command_tx, ws_pool_command_tx, exceptWs>>

\* ======================================= binary.rs: how from_bytes ends
\* A from_bytes call returns Ok(value), returns Err, or panics: the get_*
\* and copy_to_bytes methods of bytes::Buf panic when fewer bytes remain than
\* they are to read.
DecodeOutcomes == {"value", "error", "abort"}

\* One read of from_bytes: a u32, an f64, a timestamp (get_i64_le, then
\* from_timestamp_millis), a fieldless enum through from_u32(..)?, an
\* Option<f64> (get_u8, then get_f64_le if the flag is 1), or a string
\* (get_u32_le, copy_to_bytes, from_utf8(..)?).
Field(kind) == [kind |-> kind, variants |-> 0]

EnumField(variants) == [kind |-> "enum", variants |-> Len(variants)]

RECURSIVE read_fields(_, _, _, _)
\* The reads of layout from the i-th on, pos bytes of the buffer being
\* consumed: how they end, and the offsets at which an enum was read.
read_fields(bytes, layout, i, pos) ==
    IF i > Len(layout) THEN [outcome |-> "value", enums |-> {}]
    ELSE
    LET kind == layout[i].kind
        remaining == Len(bytes) - pos
        b == Drop(bytes, pos)
        next(size) == read_fields(bytes, layout, i + 1, pos + size)
        abort == [outcome |-> "abort", enums |-> {}]
        error == [outcome |-> "error", enums |-> {}]
    IN
    CASE kind = "u32" -> IF remaining < 4 THEN abort ELSE next(4)
      [] kind \in {"f64", "u64"} -> IF remaining < 8 THEN abort ELSE next(8)
      [] kind = "timestamp" ->
            IF remaining < 8 THEN abort
            ELSE IF from_timestamp_millis(get_i64_le(b)) = << >> THEN error
            ELSE next(8)
      [] kind = "enum" ->
            IF remaining < 4 THEN abort
            ELSE IF get_u32_le(b) >= layout[i].variants
            THEN [outcome |-> "error", enums |-> {pos}]
            ELSE [next(4) EXCEPT !.enums = @ \cup {pos}]
      [] kind = "option_f64" ->
            IF remaining < 1 THEN abort
            ELSE IF get_u8(b) = 1
            THEN IF remaining - 1 < 8 THEN abort ELSE next(9)
            ELSE next(1)
      [] kind = "string" ->
            IF remaining < 4 THEN abort
            ELSE IF remaining - 4 < get_u32_le(b) THEN abort
            ELSE IF get_string(b).value = << >> THEN error
            ELSE next(4 + get_u32_le(b))

\* The reads of the arms of Signal::from_bytes, in the order of the code.
SignalLayout(signal_type) ==
    CASE signal_type = 0 ->
            <<Field("u32"), Field("u32"), Field("f64"), Field("f64"), Field("f64"),
              Field("timestamp")>>
      [] signal_type = 1 ->
            <<Field("u32"), Field("u32"), Field("f64"), Field("f64"), Field("timestamp")>>
      [] signal_type = 2 ->
            <<Field("u32"), Field("u32"), Field("f64"), EnumField(FundingDirectionVariants),
              Field("timestamp")>>
      [] signal_type = 3 ->
            <<Field("u32"), Field("u32"), EnumField(RiskLevelVariants), Field("f64"),
              Field("f64"), Field("timestamp")>>
      [] signal_type = 4 ->
            <<Field("string"), Field("u32"), Field("u32"),
              EnumField(OrderResponseStatusVariants), Field("timestamp")>>

\* The `bytes.remaining() < n` test at the head of the arms 0 to 3.
SignalMinRemaining(signal_type) ==
    CASE signal_type = 0 -> 36
      [] signal_type = 1 -> 28
      [] signal_type = 2 -> 24
      [] signal_type = 3 -> 32

\* A read of the bytes behind the first n, with the offsets counted from the
\* start of the buffer.
shift_enums(read, n) == [read EXCEPT !.enums = {n + offset : offset \in @}]

\* Signal::from_bytes: how the call ends
Signal_from_bytes_read(bytes) ==
    IF Len(bytes) < 4 THEN [outcome |-> "error", enums |-> {}]
    ELSE
    LET signal_type == get_u32_le(bytes)
        b == Drop(bytes, 4)
        error == [outcome |-> "error", enums |-> {}]
    IN
    CASE signal_type \in 0 .. 3 ->
            IF Len(b) < SignalMinRemaining(signal_type) THEN error
            ELSE shift_enums(read_fields(b, SignalLayout(signal_type), 1, 0), 4)
      [] signal_type = 4 ->
            IF Len(b) < 4 THEN error
            ELSE IF Len(b) - 4 < get_u32_le(b) + 16 THEN error
            ELSE shift_enums(read_fields(b, SignalLayout(signal_type), 1, 0), 4)
      [] OTHER -> error

\* The reads of the arms of TradingEvent::from_bytes, in the order of the code.
EventLayout(event_type) ==
    CASE event_type \in {0, 1} ->
            <<Field("u32"), EnumField(ExchangeVariants), EnumField(SideVariants), Field("f64"),
              EnumField(OrderTypeVariants), Field("option_f64"),
              EnumField(TriggerTypeVariants), Field("string"), Field("timestamp")>>
      [] event_type = 2 ->
            <<Field("u32"), EnumField(ExchangeVariants), EnumField(ExchangeVariants),
              EnumField(SideVariants), Field("f64"), EnumField(TriggerTypeVariants),
              Field("string"), Field("timestamp")>>
      [] event_type = 3 ->
            <<Field("string"), Field("u32"), EnumField(ExchangeVariants), Field("string"),
              Field("timestamp")>>
      [] event_type = 4 ->
            <<Field("string"), Field("u32"), EnumField(ExchangeVariants), Field("option_f64"),
              Field("option_f64"), Field("string"), Field("timestamp")>>

\* TradingEvent::from_bytes: how the call ends
TradingEvent_from_bytes_read(bytes) ==
    IF Len(bytes) < 4 THEN [outcome |-> "error", enums |-> {}]
    ELSE
    LET event_type == get_u32_le(bytes)
        read == read_fields(Drop(bytes, 4), EventLayout(event_type), 1, 0)
    IN IF event_type \in 0 .. 4
       THEN shift_enums(read, 4)
       ELSE [outcome |-> "error", enums |-> {}]

\* EventMessage::from_bytes: how the call ends
EventMessage_from_bytes_read(bytes) ==
    LET total_len == Len(bytes) IN
    IF total_len < 16 THEN [outcome |-> "error", enums |-> {}]
    ELSE LET event == TradingEvent_from_bytes_read(Take(bytes, total_len - 16))
             metadata == read_fields(Drop(bytes, total_len - 16),
                                     <<Field("u64"), Field("timestamp")>>, 1, 0)
         IN IF event.outcome # "value" THEN event
            ELSE [metadata EXCEPT !.enums = event.enums]

\* No from_bytes call yet.
InitDecode ==
    /\ dec_type = "none"
    /\ dec_input = "none"
    /\ dec_bytes = << >>
    /\ dec_outcome = "none"
\* ================================================================== initial
\* StateManager::new
InitSM ==
    /\ machines = << >>
    /\ histories = << >>
    /\ sm_result = NoResult

\* OrderBook::new and the rest of OrderManager::new
InitBook ==
    /\ orders = << >>
    /\ orders_by_exchange_id = << >>
    /\ orders_by_symbol = << >>
    /\ book_active_orders = << >>
    /\ book_pending_orders = << >>
    /\ fills = << >>
    /\ n_created = 0

InitPQ ==
    /\ queues = pq_new
    /\ pq_pushed = << >>
    /\ pq_popped = << >>

\* ArbitrageManager::new
InitArb ==
    /\ pairs = << >>
    /\ order_to_arbitrage = << >>
    /\ arb_stats = ArbitrageStats_new

Init == InitSM /\ InitBook /\ InitPQ /\ InitArb /\ InitExec /\ InitChain /\ InitPipe /\ InitProc /\ InitHealth /\ InitCodec /\ InitCollector /\ InitResponse /\ InitSelector /\ InitRecover /\ InitWs /\ InitDecode

\* Driver: StateManager::create_order(order_id).
CreateOrder(order_id) ==
    /\ LET r == sm_create_order(machines, histories, order_id)
       IN /\ machines' = r.machines
          /\ histories' = r.histories
    /\ sm_result' = [NoResult EXCEPT !.op = "create_order", !.order_id = order_id]
    /\ UNCHANGED <<restVars, bookVars, pqVars, arbVars>>

\* Driver: StateManager::transition_order(order_id, event).
TransitionOrder(order_id, event) ==
    /\ order_id \in DOMAIN histories => Len(histories[order_id]) < MaxHistory
    /\ LET r == sm_transition_order(machines, histories, order_id, event)
       IN /\ machines' = r.machines
          /\ histories' = r.histories
          /\ sm_result' = [op |-> "transition_order", order_id |-> order_id,
                           event |-> event, from |-> r.from, ok |-> r.ok,
                           to |-> r.to]
    /\ UNCHANGED <<restVars, bookVars, pqVars, arbVars>>

SMCreate ==
    /\ \E id \in OrderIds : CreateOrder(id)
    /\ UNCHANGED lateVars

SMTransition ==
    /\ \E id \in OrderIds, e \in StateTransitionEvent : TransitionOrder(id, e)
    /\ UNCHANGED lateVars

NextOSM == SMCreate \/ SMTransition

SpecOSM == Init /\ [][NextOSM]_vars

\* ------------------------------------------------ claims on the state machine
\* The transition table as the documentation lists it.
ListedEdges ==
    {<<"Created", "Validate", "Validated">>,
     <<"Validated", "Submit", "Submitting">>,
     <<"Submitting", "SubmitSuccess", "Submitted">>,
     <<"Submitting", "SubmitFailed", "Failed">>,
     <<"Submitted", "Acknowledge", "Acknowledged">>,
     <<"Submitted", "Reject", "Rejected">>,
     <<"Acknowledged", "PartialFill", "PartiallyFilled">>,
     <<"Acknowledged", "Fill", "Filled">>,
     <<"PartiallyFilled", "PartialFill", "PartiallyFilled">>,
     <<"PartiallyFilled", "Fill", "Filled">>}
    \cup {<<s, "Cancel", "Cancelled">> :
            s \in {"Created", "Validated", "Submitting", "Submitted",
                   "Acknowledged", "PartiallyFilled"}}
    \cup {<<s, "Expire", "Expired">> :
            s \in {"Submitting", "Submitted", "Acknowledged", "PartiallyFilled"}}
    \cup {<<s, "SystemError", "Failed">> :
            s \in {"Created", "Validated", "Submitting", "Submitted",
                   "Acknowledged", "PartiallyFilled"}}

\* The listed table plus the one further edge the machine accepts.
AcceptedEdges == ListedEdges \cup {<<"Cancelled", "CancelConfirmed", "Cancelled">>}

\* Every recorded or returned transition is an edge of the table `edges`, and
\* every history is a path that starts in Created and ends in the machine's
\* current state.
OnlyEdgesOf(edges) ==
    /\ \A id \in DOMAIN histories :
         \A i \in 1..Len(histories[id]) :
            LET rec == histories[id][i]
            IN /\ <<rec.from_state, rec.event, rec.to_state>> \in edges
               /\ rec.from_state =
                     IF i = 1 THEN "Created" ELSE histories[id][i - 1].to_state
    /\ \A id \in (DOMAIN machines) \cap (DOMAIN histories) :
         machines[id] =
            IF histories[id] = << >> THEN "Created"
            ELSE histories[id][Len(histories[id])].to_state
    /\ (sm_result.op = "transition_order" /\ sm_result.ok)
          => <<sm_result.from, sm_result.event, sm_result.to>> \in edges

\* C1 (as stated): starting from Created, every accepted transition is one of
\* the listed edges of the transition table, and no other (state, event) pair
\* is accepted.
C1_OnlyListedEdges == OnlyEdgesOf(ListedEdges)

\* C1 (amended): every accepted transition is one of the listed edges or the
\* self-loop Cancelled -CancelConfirmed-> Cancelled, and no other
\* (state, event) pair is accepted.
C1_OnlyAcceptedEdges == OnlyEdgesOf(AcceptedEdges)

\* An order was cancelled and the cancel was then confirmed.
C1_Witness ==
    \E id \in DOMAIN histories :
       \E i \in 1..Len(histories[id]) :
          /\ histories[id][i].event = "CancelConfirmed"
          /\ histories[id][i].from_state = "Cancelled"

\* C2: a transition_order call for an existing order with a (state, event)
\* pair that is not accepted returns an error, leaves the order's state and
\* history as they were; an accepted one returns Ok and makes the history
\* exactly one record longer.
C2_RejectedTransitionChangesNothing ==
    [][\A id \in OrderIds, e \in StateTransitionEvent :
          (/\ sm_result'.op = "transition_order"
           /\ sm_result'.order_id = id
           /\ sm_result'.event = e
           /\ id \in (DOMAIN machines) \cap (DOMAIN histories))
          => IF \E to \in OrderState : <<machines[id], e, to>> \in AcceptedEdges
             THEN /\ sm_result'.ok
                  /\ Len(histories'[id]) = Len(histories[id]) + 1
             ELSE /\ ~sm_result'.ok
                  /\ machines'[id] = machines[id]
                  /\ histories'[id] = histories[id]]_vars

\* A transition was rejected for an order that already has a history.
C2_Witness ==
    /\ sm_result.op = "transition_order"
    /\ ~sm_result.ok
    /\ sm_result.order_id \in (DOMAIN machines) \cap (DOMAIN histories)
    /\ Len(histories[sm_result.order_id]) >= 2

\* ====================================================== SpecPQ: the queue
\* Priorities the driver pushes with (u8 values, some above 10).
PushPriorities == {0, 5, 10, 200}

\* The ids the driver pushes, in this order; each id is pushed once.
PushIds == <<"p1", "p2", "p3", "p4", "p5", "p6">>

\* Driver: PriorityQueue::push of a fresh id with priority p.
PQPush(p) ==
    /\ Len(pq_pushed) < MaxPushes
    /\ LET id == PushIds[Len(pq_pushed) + 1]
       IN /\ queues' = pq_push(queues, id, p)
          /\ pq_pushed' = Append(pq_pushed, [id |-> id, priority |-> p])
    /\ UNCHANGED <<restVars, pq_popped, smVars, bookVars, arbVars>>

\* Driver: PriorityQueue::pop.
PQPop ==
    /\ Len(pq_popped) <= Len(pq_pushed)
    /\ LET r == pq_pop(queues)
       IN /\ queues' = r.queues
          /\ pq_popped' = Append(pq_popped,
                [ret |-> r.ret, npushed |-> Len(pq_pushed)])
    /\ UNCHANGED <<restVars, lateVars, pq_pushed, smVars, bookVars, arbVars>>

PQPushAny ==
    /\ \E p \in PushPriorities : PQPush(p)
    /\ UNCHANGED lateVars

NextPQ == PQPushAny \/ PQPop

SpecPQ == Init /\ [][NextPQ]_vars

\* ------------------------------------------------------ claims on the queue
\* The band a priority is queued in: min(p, 10).
Clamp(p) == IF p < 10 THEN p ELSE 10

PoppedIds == {pq_popped[i].ret : i \in 1..Len(pq_popped)} \ {None}

\* Position of id in the sequence of pushes.
PushIndex(id) == CHOOSE i \in 1..Len(pq_pushed) : pq_pushed[i].id = id

\* Priority (as clamped) with which id was pushed.
PushedPriority(id) == Clamp(pq_pushed[PushIndex(id)].priority)

\* The ids pushed into band b and not popped yet, in push order.
Waiting(b) ==
    LET InBand(e) == Clamp(e.priority) = b /\ e.id \notin PoppedIds
        left == SelectSeq(pq_pushed, InBand)
    IN [i \in 1..Len(left) |-> left[i].id]

\* push(id, p) appends id to band min(p, 10), and nothing else enters or
\* leaves a band except through pop.
C6_BandsHoldPushesInOrder == \A b \in Bands : queues[b] = Waiting(b)

\* Popped priorities are non-increasing over pops with no push in between,
\* ids of equal priority come out in push order, no id is popped twice, and
\* a pop that finds nothing happens only when every pushed id was popped.
C6_PopOrder ==
    /\ \A i, j \in 1..Len(pq_popped) :
         (i < j /\ pq_popped[i].ret # None /\ pq_popped[j].ret # None) =>
            /\ pq_popped[i].ret # pq_popped[j].ret
            /\ pq_popped[i].npushed = pq_popped[j].npushed =>
                  PushedPriority(pq_popped[i].ret) >= PushedPriority(pq_popped[j].ret)
            /\ PushedPriority(pq_popped[i].ret) = PushedPriority(pq_popped[j].ret) =>
                  PushIndex(pq_popped[i].ret) < PushIndex(pq_popped[j].ret)
    /\ \A i \in 1..Len(pq_popped) :
         /\ pq_popped[i].ret # None =>
               \E n \in 1..pq_popped[i].npushed : pq_pushed[n].id = pq_popped[i].ret
         /\ pq_popped[i].ret = None =>
               \A n \in 1..pq_popped[i].npushed :
                  \E k \in 1..(i - 1) : pq_popped[k].ret = pq_pushed[n].id

\* pop removes and returns the head of the highest-numbered non-empty band,
\* and returns None, changing nothing, when all 11 bands are empty.
C6_PopTakesHighestHead ==
    pq_popped' # pq_popped =>
        LET e == pq_popped'[Len(pq_popped')]
            nonempty == {b \in 0..10 : queues[b] # << >>}
        IN IF nonempty = {}
           THEN e.ret = None /\ queues' = queues
           ELSE \E b \in nonempty :
                   /\ \A c \in nonempty : c <= b
                   /\ e.ret = Head(queues[b])
                   /\ queues' = [queues EXCEPT ![b] = Tail(@)]

\* C6: push(id, p) appends id to band min(p, 10); pop removes and returns
\* the head of the highest-numbered non-empty band (None when all 11 bands
\* are empty); hence popped priorities (as clamped to 10) are non-increasing
\* for pushes followed by pops, ids of equal priority come out in push
\* order, and every pushed id is popped exactly once.
C6_PriorityQueue ==
    /\ [](C6_BandsHoldPushesInOrder /\ C6_PopOrder)
    /\ [][C6_PopTakesHighestHead]_vars

\* Pushes into several bands, one with a priority above 10, followed by pops
\* that drained the queue.
C6_Witness ==
    /\ Len(pq_pushed) >= 4
    /\ \E i, j, k \in 1..Len(pq_pushed) :
          /\ i < j /\ pq_pushed[i].priority = 10 /\ pq_pushed[j].priority = 200
          /\ pq_pushed[k].priority = 0
    /\ \A b \in Bands : queues[b] = << >>
    /\ Len(pq_popped) = Len(pq_pushed)
    /\ \A i \in 1..Len(pq_popped) : pq_popped[i].npushed = Len(pq_pushed)

\* ========================================== SpecArb: the arbitrage manager
ArbIds == {"a1"}

\* Order ids the driver attaches to pairs and reports on.
ArbOrderIds == {"o1", "o2"}

\* Order states the driver reports for a leg.
ArbStatuses == {"Acknowledged", "Filled", "Cancelled", "Rejected", "Failed"}

\* Driver: ArbitrageManager::create_pair(id, ..).
ArbCreatePair(id) ==
    /\ arb_stats.total_pairs < MaxPairCreates
    /\ LET r == arb_create_pair(pairs, arb_stats, id)
       IN pairs' = r.pairs /\ arb_stats' = r.stats
    /\ UNCHANGED <<restVars, order_to_arbitrage, smVars, bookVars, pqVars>>

\* Driver: ArbitrageManager::add_order(arbitrage_id, order_id).
ArbAddOrder(arbitrage_id, order_id) ==
    /\ LET r == arb_add_order(pairs, order_to_arbitrage, arbitrage_id, order_id)
       IN pairs' = r.pairs /\ order_to_arbitrage' = r.order_to_arbitrage
    /\ UNCHANGED <<restVars, arb_stats, smVars, bookVars, pqVars>>

\* Driver: ArbitrageManager::update_order_status(arbitrage_id, order_id, new_status).
ArbUpdateOrderStatus(arbitrage_id, order_id, new_status) ==
    /\ arb_stats.completed_pairs < MaxCompletions
    /\ LET r == arb_update_order_status(pairs, arb_stats, arbitrage_id, order_id,
                                        new_status)
       IN pairs' = r.pairs /\ arb_stats' = r.stats
    /\ UNCHANGED <<restVars, order_to_arbitrage, smVars, bookVars, pqVars>>

\* Driver: ArbitrageManager::cancel_pair(arbitrage_id).
ArbCancelPair(arbitrage_id) ==
    /\ LET r == arb_cancel_pair(pairs, arb_stats, arbitrage_id)
       IN pairs' = r.pairs /\ arb_stats' = r.stats
    /\ UNCHANGED <<restVars, order_to_arbitrage, smVars, bookVars, pqVars>>

\* Driver: ArbitrageManager::cleanup_completed_pairs(keep_hours), `old` being
\* the pairs completed before the cutoff.
ArbCleanup(old) ==
    /\ LET r == arb_cleanup_completed_pairs(pairs, order_to_arbitrage, old)
       IN pairs' = r.pairs /\ order_to_arbitrage' = r.order_to_arbitrage
    /\ UNCHANGED <<restVars, arb_stats, smVars, bookVars, pqVars>>

ArbCreate ==
    /\ \E id \in ArbIds : ArbCreatePair(id)
    /\ UNCHANGED lateVars

ArbAdd ==
    /\ \E id \in ArbIds, o \in ArbOrderIds : ArbAddOrder(id, o)
    /\ UNCHANGED lateVars

ArbUpdate ==
    /\ \E id \in ArbIds, o \in ArbOrderIds, st \in ArbStatuses : ArbUpdateOrderStatus(id, o, st)
    /\ UNCHANGED lateVars

ArbCancel ==
    /\ \E id \in ArbIds : ArbCancelPair(id)
    /\ UNCHANGED lateVars

ArbClean ==
    /\ \E old \in SUBSET ArbIds : ArbCleanup(old)
    /\ UNCHANGED lateVars

NextArb == ArbCreate \/ ArbAdd \/ ArbUpdate \/ ArbCancel \/ ArbClean

SpecArb == Init /\ [][NextArb]_vars

\* ------------------------------------------------ claims on the arbitrage pairs
C7_Failed(status) == status \in {"Cancelled", "Rejected", "Failed"}

\* The state the decision table names for the recorded leg statuses, `before`
\* being the state the pair had when update_order_status was called.
C7_TableState(maker_status, taker_status, before) ==
    LET m_fill == maker_status = "Filled"
        t_fill == taker_status = "Filled"
        m_fail == C7_Failed(maker_status)
        t_fail == C7_Failed(taker_status)
    IN IF m_fill /\ t_fill THEN "Completed"
       ELSE IF (m_fill /\ t_fail) \/ (t_fill /\ m_fail) THEN "PartialSuccess"
       ELSE IF m_fail /\ t_fail THEN "Failed"
       ELSE IF m_fill THEN "MakerFilled"
       ELSE before

\* C7: after every update_order_status on an existing pair, the pair's state is
\* Completed when both legs are Filled, PartialSuccess when exactly one leg is
\* Filled and the other is Cancelled, Rejected or Failed, Failed when both legs
\* are Cancelled, Rejected or Failed, MakerFilled when the maker is Filled and
\* the taker is neither Filled nor failed, and otherwise the state the pair had
\* before the update.
C7_UpdateFollowsTable ==
    [][\A id \in ArbIds, o \in ArbOrderIds, st \in ArbStatuses :
          (id \in DOMAIN pairs /\ ArbUpdateOrderStatus(id, o, st))
          => /\ id \in DOMAIN pairs'
             /\ pairs'[id].state =
                  C7_TableState(pairs'[id].maker_status, pairs'[id].taker_status,
                                pairs[id].state)]_vars

\* A pair that an update left in PartialSuccess: the taker filled after the
\* maker was rejected.
C7_Witness ==
    \E id \in DOMAIN pairs :
       /\ pairs[id].state = "PartialSuccess"
       /\ pairs[id].maker_status = "Rejected"
       /\ pairs[id].taker_status = "Filled"

\* C8 as stated: the same pair at two points in time with equal maker_status and
\* taker_status has the same state.
C8_StateFromStatusesAlone ==
    [][\A id \in DOMAIN pairs \cap DOMAIN pairs' :
          (/\ pairs'[id].maker_status = pairs[id].maker_status
           /\ pairs'[id].taker_status = pairs[id].taker_status)
          => pairs'[id].state = pairs[id].state]_vars

\* The rows of the decision table whose state is terminal.
C8_TerminalRow(maker_status, taker_status) ==
    \/ maker_status = "Filled" /\ taker_status = "Filled"
    \/ maker_status = "Filled" /\ C7_Failed(taker_status)
    \/ taker_status = "Filled" /\ C7_Failed(maker_status)
    \/ C7_Failed(maker_status) /\ C7_Failed(taker_status)

\* C8: whenever the leg statuses of a pair match a terminal row of the decision
\* table (both Filled; one Filled and the other failed; both failed), the
\* pair's state is the state of that row (Completed, PartialSuccess, Failed),
\* whatever calls led there.
C8_TerminalRowsDetermineState ==
    \A id \in DOMAIN pairs :
       C8_TerminalRow(pairs[id].maker_status, pairs[id].taker_status)
       => pairs[id].state =
            C7_TableState(pairs[id].maker_status, pairs[id].taker_status, "none")

\* A pair whose two legs are Filled.
C8_Witness ==
    \E id \in DOMAIN pairs :
       /\ pairs[id].maker_status = "Filled"
       /\ pairs[id].taker_status = "Filled"
       /\ pairs[id].state = "Completed"


\* A step of update_order_status, add_order or cancel_pair: no pair is
\* created and none is cleaned away.
C39_CallOnPairs ==
    /\ DOMAIN pairs' = DOMAIN pairs
    /\ arb_stats'.total_pairs = arb_stats.total_pairs

\* Pairs that enter a terminal state in the step.
C39_Finishing ==
    {id \in DOMAIN pairs : ~arb_is_terminal(pairs[id].state)
                           /\ arb_is_terminal(pairs'[id].state)}

\* C39: once a pair is in a terminal state (Completed, PartialSuccess, Failed
\* or Cancelled) no later update_order_status, add_order or cancel_pair call
\* changes its state, and the pair is counted exactly once in completed_pairs
\* and subtracted exactly once from active_pairs: the step that makes a pair
\* terminal adds one to completed_pairs and takes one from active_pairs, and
\* no other step of these calls moves either counter.
C39_TerminalIsFinalAndCountedOnce ==
    [][C39_CallOnPairs =>
        /\ \A id \in DOMAIN pairs :
              arb_is_terminal(pairs[id].state) => pairs'[id].state = pairs[id].state
        /\ arb_stats'.completed_pairs = arb_stats.completed_pairs + Cardinality(C39_Finishing)
        /\ arb_stats'.active_pairs = arb_stats.active_pairs - Cardinality(C39_Finishing)]_vars
\* ============================================ SpecOM: the order manager
\* Client order ids in the order Order::generate_client_order_id mints them
\* (each call returns a fresh uuid).
OMIdSeq == <<"o1", "o2", "o3", "o4", "o5">>

\* Ids the driver passes to the manager, before and after they are minted.
OMIds == {OMIdSeq[i] : i \in 1..MaxOrders}

\* Signals the driver creates orders from.
OMSignals ==
    {[id |-> "s1", quantity |-> Some(2), price |-> Some(100), arbitrage_id |-> None,
      signal_type |-> "Market", symbol |-> "BTCUSDT"],
     [id |-> "s2", quantity |-> NoNumber, price |-> NoNumber, arbitrage_id |-> "a1",
      signal_type |-> "Arbitrage", symbol |-> "BTCUSDT"]}

\* common::types::OrderStatus
OrderStatus == {"Pending", "Placed", "PartiallyFilled", "Filled", "Cancelled", "Rejected"}

\* Filled quantities and prices the driver's execution reports carry.
ReportQuantities == {1, 3}

ReportPrices == {100}

\* The order-manager driver stops feeding events to an order whose history is
\* full.
HistoryHasRoom(order_id) ==
    order_id \in DOMAIN histories => Len(histories[order_id]) < MaxOrderEvents

\* OrderManager::create_order_from_signal
OMCreateOrder(signal) ==
    /\ LET id == OMIdSeq[n_created + 1]
           order == from_signal(signal, id)
           sm == sm_create_order(machines, histories, id)
           arb == IF order.arbitrage_id # None
                  THEN arb_add_order(pairs, order_to_arbitrage, order.arbitrage_id, id)
                  ELSE [pairs |-> pairs, order_to_arbitrage |-> order_to_arbitrage]
       IN /\ machines' = sm.machines
          /\ histories' = sm.histories
          /\ orders' = MapInsert(orders, id, order)
          /\ add_order(order)
          /\ pairs' = arb.pairs
          /\ order_to_arbitrage' = arb.order_to_arbitrage
          /\ n_created' = n_created + 1
    /\ UNCHANGED <<restVars, sm_result, fills, pqVars, arb_stats>>

\* The shape shared by validate_order, mark_submitting, mark_submitted,
\* mark_submit_failed and the handle_* functions: the state-manager transition
\* first (its error is returned through `?` before anything else happens),
\* then, if the book holds the order, its update and, where requeue says so,
\* a push of its id onto the priority queue.
OMTransitionThen(order_id, event, updated, requeue) ==
    /\ LET sm == sm_transition_order(machines, histories, order_id, event)
       IN /\ machines' = sm.machines
          /\ histories' = sm.histories
          /\ IF sm.ok /\ order_id \in DOMAIN orders
             THEN /\ orders' = [orders EXCEPT ![order_id] = updated]
                  /\ queues' = IF requeue
                               THEN pq_push(queues, order_id, orders[order_id].priority)
                               ELSE queues
             ELSE UNCHANGED <<orders, queues>>
    /\ UNCHANGED <<restVars, sm_result, bookIndexes, n_created, pq_pushed, pq_popped>>

\* OrderManager::validate_order
OMValidateOrder(order_id) ==
    /\ OMTransitionThen(order_id, "Validate",
                        [orders[order_id] EXCEPT !.state = "Validated"],
                        TRUE)
    /\ UNCHANGED <<fills, arbVars>>

\* The pop loop of get_next_pending_order: ids are popped and dropped until one
\* names an order of the book that is in state Validated.
RECURSIVE next_pending(_, _)
next_pending(q, book) ==
    LET r == pq_pop(q)
    IN IF r.ret = None THEN [ret |-> None, queues |-> r.queues]
       ELSE IF r.ret \in DOMAIN book /\ book[r.ret].state = "Validated"
       THEN [ret |-> r.ret, queues |-> r.queues]
       ELSE next_pending(r.queues, book)

\* OrderManager::get_next_pending_order
OMGetNextPendingOrder ==
    /\ LET r == next_pending(queues, orders)
       IN /\ queues' = r.queues
    /\ UNCHANGED <<restVars, lateVars, smVars, orders, bookIndexes, fills, n_created,
                   pq_pushed, pq_popped, arbVars>>

\* OrderManager::mark_submitting
OMMarkSubmitting(order_id) ==
    /\ OMTransitionThen(order_id, "Submit",
                        [orders[order_id] EXCEPT !.state = "Submitting"],
                        FALSE)
    /\ UNCHANGED <<fills, arbVars>>

\* OrderManager::mark_submitted
OMMarkSubmitted(order_id, exchange_order_id) ==
    /\ OMTransitionThen(order_id, "SubmitSuccess",
                        set_exchange_order_id([orders[order_id] EXCEPT !.state = "Submitted"],
                                                         exchange_order_id),
                        FALSE)
    /\ UNCHANGED <<fills, arbVars>>

\* OrderManager::mark_submit_failed
OMMarkSubmitFailed(order_id) ==
    /\ OMTransitionThen(order_id, "SubmitFailed",
                        LET failed == [orders[order_id] EXCEPT !.state = "Failed"]
                                   IN IF can_retry(failed) THEN increment_retry(failed)
                                      ELSE failed,
                        can_retry([orders[order_id] EXCEPT !.state = "Failed"]))
    /\ UNCHANGED <<fills, arbVars>>

\* The Fill that record_fill appends for a report (trade id, symbol, side, fee
\* and timestamp are left out).
Fill(order_id, report) ==
    [order_id |-> order_id, price |-> report.price, quantity |-> report.filled_quantity]

\* OrderManager::record_fill
record_fill(fs, order_id, report) ==
    MapInsert(fs, order_id,
              Append(IF order_id \in DOMAIN fs THEN fs[order_id] ELSE << >>,
                     Fill(order_id, report)))

\* OrderManager::handle_order_acknowledged
OMHandleAcknowledged(order_id) ==
    /\ OMTransitionThen(order_id, "Acknowledge",
                        [orders[order_id] EXCEPT !.state = "Acknowledged"],
                        FALSE)
    /\ UNCHANGED <<fills, arbVars>>

\* OrderManager::handle_partial_fill
OMHandlePartialFill(order_id, report) ==
    /\ OMTransitionThen(order_id, "PartialFill",
                        update_execution(orders[order_id], report.filled_quantity, report.price),
                        FALSE)
    /\ fills' = IF sm_transition_order(machines, histories, order_id, "PartialFill").ok
                   /\ order_id \in DOMAIN orders
                THEN record_fill(fills, order_id, report)
                ELSE fills
    /\ UNCHANGED arbVars

\* OrderManager::handle_order_filled
OMHandleFilled(order_id, report) ==
    /\ OMTransitionThen(order_id, "Fill",
                        update_execution(orders[order_id], report.filled_quantity, report.price),
                        FALSE)
    /\ IF sm_transition_order(machines, histories, order_id, "Fill").ok
          /\ order_id \in DOMAIN orders
       THEN /\ fills' = record_fill(fills, order_id, report)
            /\ IF orders[order_id].arbitrage_id # None
               THEN LET r == arb_update_order_status(pairs, arb_stats,
                                                     orders[order_id].arbitrage_id,
                                                     order_id, "Filled")
                    IN pairs' = r.pairs /\ arb_stats' = r.stats
               ELSE UNCHANGED <<pairs, arb_stats>>
       ELSE UNCHANGED <<fills, pairs, arb_stats>>
    /\ UNCHANGED order_to_arbitrage

\* OrderManager::handle_order_cancelled
OMHandleCancelled(order_id) ==
    /\ OMTransitionThen(order_id, "CancelConfirmed",
                        [orders[order_id] EXCEPT !.state = "Cancelled"],
                        FALSE)
    /\ UNCHANGED <<fills, arbVars>>

\* OrderManager::handle_order_rejected
OMHandleRejected(order_id) ==
    /\ OMTransitionThen(order_id, "Reject",
                        [orders[order_id] EXCEPT !.state = "Rejected"],
                        FALSE)
    /\ UNCHANGED <<fills, arbVars>>

\* OrderManager::process_execution_report
OMProcessExecutionReport(report) ==
    LET order_id == lookup_order(orders, orders_by_exchange_id, report.order_id)
    IN IF order_id = None
       THEN UNCHANGED <<restVars, smVars, orders, bookIndexes, fills, n_created,
                        pqVars, arbVars>>
       ELSE CASE report.status = "Pending" -> OMHandleAcknowledged(order_id)
              [] report.status = "PartiallyFilled" -> OMHandlePartialFill(order_id, report)
              [] report.status = "Filled" -> OMHandleFilled(order_id, report)
              [] report.status = "Cancelled" -> OMHandleCancelled(order_id)
              [] report.status = "Rejected" -> OMHandleRejected(order_id)
              [] OTHER ->
                   UNCHANGED <<restVars, smVars, orders, bookIndexes, fills,
                               n_created, pqVars, arbVars>>

\* OrderManager::cancel_order
OMCancelOrder(order_id) ==
    /\ LET allowed == order_id \in DOMAIN orders /\ can_cancel(orders[order_id].state)
           sm == sm_transition_order(machines, histories, order_id, "Cancel")
       IN IF allowed
          THEN /\ machines' = sm.machines
               /\ histories' = sm.histories
          ELSE UNCHANGED <<machines, histories>>
    /\ UNCHANGED <<restVars, sm_result, orders, bookIndexes, fills, n_created,
                   pqVars, arbVars>>

\* OrderManager::cleanup_completed_orders(keep_hours), `old` being the orders
\* whose updated_at lies before the cutoff.
OMCleanupCompletedOrders(old) ==
    /\ LET to_remove == {id \in old : is_completed(orders[id])}
           sm == sm_cleanup_terminal_orders(machines, histories, FALSE)
       IN /\ orders' = MapRemove(orders, to_remove)
          /\ fills' = MapRemove(fills, to_remove)
          /\ machines' = sm.machines
          /\ histories' = sm.histories
    /\ UNCHANGED <<restVars, sm_result, bookIndexes, n_created, pqVars, arbVars>>

\* The execution reports the driver delivers.
Reports ==
    [order_id : OMIds, status : OrderStatus, filled_quantity : ReportQuantities,
     price : ReportPrices]

OMCreate ==
    /\ n_created < MaxOrders
    /\ \E signal \in OMSignals : OMCreateOrder(signal)
    /\ UNCHANGED lateVars

OMValidate ==
    /\ \E id \in OMIds : HistoryHasRoom(id) /\ OMValidateOrder(id)
    /\ UNCHANGED lateVars

OMSubmitting ==
    /\ \E id \in OMIds : HistoryHasRoom(id) /\ OMMarkSubmitting(id)
    /\ UNCHANGED lateVars

OMSubmitted ==
    /\ \E id \in OMIds : HistoryHasRoom(id) /\ OMMarkSubmitted(id, "x1")
    /\ UNCHANGED lateVars

OMSubmitFailed ==
    /\ \E id \in OMIds : HistoryHasRoom(id) /\ OMMarkSubmitFailed(id)
    /\ UNCHANGED lateVars

OMReport ==
    /\ \E report \in Reports :
          /\ HistoryHasRoom(lookup_order(orders, orders_by_exchange_id, report.order_id))
          /\ OMProcessExecutionReport(report)
    /\ UNCHANGED lateVars

OMCancel ==
    /\ \E id \in OMIds : HistoryHasRoom(id) /\ OMCancelOrder(id)
    /\ UNCHANGED lateVars

OMCleanup ==
    /\ \E old \in SUBSET DOMAIN orders : OMCleanupCompletedOrders(old)
    /\ UNCHANGED lateVars

NextOM ==
    \/ OMCreate
    \/ OMValidate
    \/ OMGetNextPendingOrder
    \/ OMSubmitting
    \/ OMSubmitted
    \/ OMSubmitFailed
    \/ OMReport
    \/ OMCancel
    \/ OMCleanup

SpecOM == Init /\ [][NextOM]_vars

\* ------------------------------------------------ claims on the order manager
\* C3: for every order the order manager holds, executed_quantity +
\* remaining_quantity = quantity, after any sequence of manager calls and
\* execution reports, over-fills included.
C3_QuantityConserved ==
    \A id \in DOMAIN orders :
       orders[id].executed_quantity + orders[id].remaining_quantity
          = orders[id].quantity

\* An order that a partial fill followed by a second report has over-filled.
C3_Witness ==
    \E id \in (DOMAIN orders) \cap (DOMAIN fills) :
       /\ Len(fills[id]) = 2
       /\ orders[id].quantity > 0
       /\ orders[id].executed_quantity > orders[id].quantity
       /\ orders[id].remaining_quantity < 0


\* C14: for every order of the book, filled_at is set if and only if the
\* order's lifecycle state, the state the StateManager holds for it, is
\* Filled: set once a Fill was accepted, unset in every other state.
C14_FilledAtIffFilled ==
    \A id \in DOMAIN orders :
       id \in DOMAIN machines => (orders[id].filled_at <=> machines[id] = "Filled")

\* ------------------------------------------------ claims on mark_submit_failed
\* The step is a mark_submit_failed on the order id, which was in Submitting.
C29_SubmitFailed(id) ==
    /\ id \in DOMAIN orders /\ id \in DOMAIN orders'
    /\ orders[id].state = "Submitting"
    /\ orders'[id].state = "Failed"

\* The order is Failed; with retries left its retry_count went up by one and
\* its id was pushed at its priority, otherwise count and queue are as before.
C29_FailedAndRequeued(id) ==
    LET o == orders[id]
        band == IF o.priority < 10 THEN o.priority ELSE 10
    IN IF o.retry_count < o.max_retry
       THEN /\ orders'[id] = [o EXCEPT !.state = "Failed", !.retry_count = o.retry_count + 1]
            /\ queues'[band] = Append(queues[band], id)
            /\ \A b \in Bands \ {band} : queues'[b] = queues[b]
       ELSE /\ orders'[id] = [o EXCEPT !.state = "Failed"]
            /\ queues' = queues

\* retry_count stays within max_retry, and can_retry is false for an order
\* without retries left or in a state other than Rejected and Failed.
C29_RetryBound ==
    \A id \in DOMAIN orders :
       /\ orders[id].retry_count <= orders[id].max_retry
       /\ \A n \in 0 .. orders[id].max_retry + 1, s \in OrderState :
             LET o == [orders[id] EXCEPT !.retry_count = n, !.state = s]
             IN (n >= o.max_retry \/ s \notin {"Rejected", "Failed"}) => ~can_retry(o)

\* C29: mark_submit_failed on an order in Submitting moves it to Failed; if
\* retry_count < max_retry it adds exactly one to retry_count and pushes the
\* id onto the priority queue at the order's priority, otherwise the order is
\* left as it is; retry_count never exceeds max_retry; can_retry() is false
\* whenever retry_count >= max_retry or the state is neither Rejected nor
\* Failed.
C29_MarkSubmitFailed ==
    /\ []C29_RetryBound
    /\ [][\A id \in OMIds : C29_SubmitFailed(id) => C29_FailedAndRequeued(id)]_vars

\* An order that failed in Submitting: it is Failed with one retry counted
\* and its id is in the queue at its priority.
C29_Witness ==
    \E id \in DOMAIN orders :
       /\ orders[id].state = "Failed"
       /\ orders[id].retry_count = 1
       /\ \E k \in 1 .. Len(queues[orders[id].priority]) : queues[orders[id].priority][k] = id

\* -------------------------------------------- claims on cleanup_completed_orders
\* The step removes an order record, fills, a state machine or a history:
\* only cleanup_completed_orders does.
C30_Removes ==
    \/ DOMAIN orders' # DOMAIN orders /\ DOMAIN orders' \subseteq DOMAIN orders
    \/ DOMAIN machines' # DOMAIN machines /\ DOMAIN machines' \subseteq DOMAIN machines
    \/ DOMAIN histories' # DOMAIN histories /\ DOMAIN histories' \subseteq DOMAIN histories
    \/ DOMAIN fills' # DOMAIN fills /\ DOMAIN fills' \subseteq DOMAIN fills

\* The step takes away the record, fills, state machine and history of the
\* orders in `removed` and leaves those of every other order as they were.
C30_RemovesExactly(removed) ==
    /\ orders' = MapRemove(orders, removed)
    /\ fills' = MapRemove(fills, removed)
    /\ machines' = MapRemove(machines, removed)
    /\ histories' = MapRemove(histories, removed)

\* C30: cleanup_completed_orders(keep_hours) removes exactly the orders in a
\* terminal state (Filled, Cancelled, Rejected, Expired, Failed) whose
\* updated_at is older than the keep window, with their fills, state-machine
\* entry and history; every other order keeps its record, fills,
\* state-machine entry and history.
C30_CleanupRemovesOldTerminal ==
    [][C30_Removes =>
          \E old \in SUBSET DOMAIN orders :
             C30_RemovesExactly({id \in old : is_terminal(orders[id].state)})]_vars

\* ------------------------------------------ claims on the book's state field
\* C36: after any sequence of order-manager operations and execution
\* reports, the state field of every order of the order book equals the
\* state the state manager reports for that order.
C36_BookStateIsManagerState ==
    \A id \in (DOMAIN orders) \cap (DOMAIN machines) : orders[id].state = machines[id]

\* ------------------------------------------------ claims on the retry queue
\* How many entries of the priority queue q hold the order id.
C37_Queued(q, id) ==
    Cardinality({<<b, k>> \in Bands \X (1..MaxOrderEvents) :
                    k <= Len(q[b]) /\ q[b][k] = id})

\* The order was re-queued by mark_submit_failed and still waits.
C37_Requeued(id) ==
    /\ orders[id].state = "Failed"
    /\ orders[id].retry_count > 0
    /\ C37_Queued(queues, id) > 0

\* C37: an order that mark_submit_failed re-queued for retry is returned by
\* the get_next_pending_order call that takes its id from the priority
\* queue; no re-queued id is popped and discarded.
C37_RequeuedIsHandedOut ==
    [][\A id \in DOMAIN orders :
          (C37_Requeued(id) /\ C37_Queued(queues', id) < C37_Queued(queues, id)) =>
             next_pending(queues, orders).ret = id]_vars

\* ------------------------------------- claims on the book's derived collections
\* The ids a list holds.
C38_Ids(list) == {list[k] : k \in 1..Len(list)}

\* C38: after any sequence of order-manager operations, cleanup included,
\* every id in the symbol index, the exchange-id index, the active list and
\* the pending list is an order of the primary index; the active list holds
\* exactly the orders in Submitting, Submitted, Acknowledged or
\* PartiallyFilled, and the pending list exactly those in Created or
\* Validated.
C38_DerivedCollectionsAgree ==
    /\ \A symbol \in DOMAIN orders_by_symbol :
          C38_Ids(orders_by_symbol[symbol]) \subseteq DOMAIN orders
    /\ \A x \in DOMAIN orders_by_exchange_id : orders_by_exchange_id[x] \in DOMAIN orders
    /\ C38_Ids(book_active_orders) = {id \in DOMAIN orders : is_active(orders[id].state)}
    /\ C38_Ids(book_pending_orders)
          = {id \in DOMAIN orders : orders[id].state \in {"Created", "Validated"}}

\* ================================== SpecFill: one order and its fills
\* The signal the fill driver creates its order from: quantity 10 at 100.
FillSignals ==
    {[id |-> "s1", quantity |-> Some(10), price |-> Some(100), arbitrage_id |-> None,
      signal_type |-> "Market", symbol |-> "BTCUSDT"]}

\* The execution reports the fill driver delivers for the order, by its
\* client order id or by the exchange order id mark_submitted gave it.
FillReports ==
    [order_id : {"o1", "x1"}, status : OrderStatus, filled_quantity : {3, 4},
     price : {100, 101}]

\* The fill driver stops when the order's history is full.
FillHasRoom ==
    "o1" \in DOMAIN histories => Len(histories["o1"]) < MaxFillEvents

FillCreate ==
    /\ n_created = 0
    /\ \E signal \in FillSignals : OMCreateOrder(signal)
    /\ UNCHANGED lateVars

FillValidate ==
    /\ FillHasRoom
    /\ OMValidateOrder("o1")
    /\ UNCHANGED lateVars

FillSubmitting ==
    /\ FillHasRoom
    /\ OMMarkSubmitting("o1")
    /\ UNCHANGED lateVars

FillSubmitted ==
    /\ FillHasRoom
    /\ OMMarkSubmitted("o1", "x1")
    /\ UNCHANGED lateVars

FillReport ==
    /\ FillHasRoom
    /\ \E report \in FillReports : OMProcessExecutionReport(report)
    /\ UNCHANGED lateVars

NextFill == FillCreate \/ FillValidate \/ FillSubmitting \/ FillSubmitted \/ FillReport

SpecFill == Init /\ [][NextFill]_vars

\* ----------------------------------------- claims on the fill scenario
\* The events of the order's recorded transitions, in order.
C15_Events == [k \in 1..Len(histories["o1"]) |-> histories["o1"][k].event]

\* The order of quantity 10 at 100 was submitted and acknowledged and then
\* took PartialFill(3, 100), PartialFill(4, 101) and a Fill whose report
\* carried the last 3 at 101.
C15_Scenario ==
    /\ "o1" \in DOMAIN orders /\ "o1" \in DOMAIN histories /\ "o1" \in DOMAIN fills
    /\ orders["o1"].quantity = 10 /\ orders["o1"].price = 100
    /\ Len(histories["o1"]) >= 3
    /\ SubSeq(C15_Events, Len(C15_Events) - 2, Len(C15_Events))
          = <<"PartialFill", "PartialFill", "Fill">>
    /\ fills["o1"] = <<Fill("o1", [price |-> 100, filled_quantity |-> 3]),
                       Fill("o1", [price |-> 101, filled_quantity |-> 4]),
                       Fill("o1", [price |-> 101, filled_quantity |-> 3])>>

\* What C15 says of the order's quantities and state at the end of the
\* scenario.
C15_Outcome ==
    /\ orders["o1"].executed_quantity = 10
    /\ orders["o1"].executed_price = Rat(3 * 100 + 4 * 101 + 3 * 101, 10)
    /\ orders["o1"].state = "Filled"
    /\ machines["o1"] = "Filled"

\* C15 as stated: at the end of the scenario 'partial then full fill' the
\* order has executed_quantity 10, executed_price (3*100 + 4*101 + 3*101)/10,
\* state Filled, and a transition history of 5 entries.
C15_PartialThenFullFill ==
    C15_Scenario => C15_Outcome /\ Len(histories["o1"]) = 5

\* C15, amended: the same, with a transition history of 7 entries (Validate,
\* Submit, SubmitSuccess, Acknowledge, PartialFill, PartialFill, Fill).
C15_PartialThenFullFillSeven ==
    C15_Scenario =>
       /\ C15_Outcome
       /\ C15_Events = <<"Validate", "Submit", "SubmitSuccess", "Acknowledge",
                         "PartialFill", "PartialFill", "Fill">>

C15_Witness ==
    /\ C15_Scenario
    /\ orders["o1"].executed_quantity = 10
    /\ orders["o1"].filled_at
    /\ Len(histories["o1"]) = 7

\* ------------------------------------------- claims on the exchange-id index
\* C31: once mark_submitted has given an order its exchange_order_id, the
\* secondary index maps that exchange_order_id to the order's client order
\* id, so the lookup process_execution_report makes for a report carrying the
\* exchange_order_id finds the order.
C31_ExchangeIdIndexed ==
    \A id \in DOMAIN orders :
       orders[id].exchange_order_id # None =>
          /\ orders[id].exchange_order_id \in DOMAIN orders_by_exchange_id
          /\ orders_by_exchange_id[orders[id].exchange_order_id] = id
          /\ lookup_order(orders, orders_by_exchange_id, orders[id].exchange_order_id) = id

\* ===================== SpecHedge: the two orders of an arbitrage pair
\* The signal both legs are created from: it carries the pair's arbitrage id.
HedgeSignals ==
    {[id |-> "s1", quantity |-> Some(2), price |-> Some(100), arbitrage_id |-> "a1",
      signal_type |-> "Arbitrage", symbol |-> "BTCUSDT"]}

HedgeOrderIds == {"o1", "o2"}

\* The exchange order id mark_submitted records for each leg.
HedgeExchangeId(id) == IF id = "o1" THEN "x1" ELSE "x2"

\* The execution reports the hedge driver delivers.
HedgeReports ==
    [order_id : HedgeOrderIds, status : OrderStatus, filled_quantity : {2},
     price : {100}]

\* The hedge driver stops feeding events to a leg whose history is full.
HedgeHasRoom(id) ==
    id \in DOMAIN histories => Len(histories[id]) < MaxHedgeEvents

\* ArbitrageManager::create_pair for the pair, before its legs are created.
HedgeCreatePair ==
    /\ "a1" \notin DOMAIN pairs
    /\ n_created = 0
    /\ ArbCreatePair("a1")
    /\ UNCHANGED lateVars

HedgeCreateOrder ==
    /\ n_created < 2
    /\ \E signal \in HedgeSignals : OMCreateOrder(signal)
    /\ UNCHANGED lateVars

HedgeValidate ==
    /\ \E id \in HedgeOrderIds : HedgeHasRoom(id) /\ OMValidateOrder(id)
    /\ UNCHANGED lateVars

HedgeSubmitting ==
    /\ \E id \in HedgeOrderIds : HedgeHasRoom(id) /\ OMMarkSubmitting(id)
    /\ UNCHANGED lateVars

HedgeSubmitted ==
    /\ \E id \in HedgeOrderIds :
          HedgeHasRoom(id) /\ OMMarkSubmitted(id, HedgeExchangeId(id))
    /\ UNCHANGED lateVars

HedgeReport ==
    /\ \E report \in HedgeReports :
          HedgeHasRoom(report.order_id) /\ OMProcessExecutionReport(report)
    /\ UNCHANGED lateVars

NextHedge ==
    \/ HedgeCreatePair
    \/ HedgeCreateOrder
    \/ HedgeValidate
    \/ HedgeSubmitting
    \/ HedgeSubmitted
    \/ HedgeReport

SpecHedge == Init /\ [][NextHedge]_vars

\* ---------------------------------------- claims on the hedge scenario
\* Pair a1 has maker o1 and taker o2, both orders of the order manager that
\* carry its arbitrage id; o1 reached Filled and o2 reached Rejected.
C16_Scenario ==
    /\ "a1" \in DOMAIN pairs
    /\ pairs["a1"].maker_order_id = "o1"
    /\ pairs["a1"].taker_order_id = "o2"
    /\ {"o1", "o2"} \subseteq DOMAIN orders
    /\ orders["o1"].arbitrage_id = "a1" /\ orders["o2"].arbitrage_id = "a1"
    /\ machines["o1"] = "Filled"
    /\ machines["o2"] = "Rejected"

\* C16: once the maker o1 of pair a1 reached Filled and its taker o2 reached
\* Rejected through execution reports, the pair's state is PartialSuccess and
\* get_hedge_required_pairs() returns the pair.
C16_PartialSuccessNeedsHedge ==
    C16_Scenario =>
       /\ pairs["a1"].state = "PartialSuccess"
       /\ "a1" \in get_hedge_required_pairs(pairs)
\* ============================================== SpecExec: the order executor
\* Commands the driver submits: command.id, exchange and the caller's
\* client_order_id (None when the executor is to mint one).
ExecCommands ==
    {[id |-> "k1", exchange |-> "binance", client_order_id |-> None],
     [id |-> "k1", exchange |-> "binance", client_order_id |-> "cid1"],
     [id |-> "k2", exchange |-> "binance", client_order_id |-> "cid1"],
     [id |-> "k1", exchange |-> "okx", client_order_id |-> None],
     [id |-> "k1", exchange |-> "okx", client_order_id |-> "cid1"]}

\* The two ways a command enters the executor.
ExecEntries == {"execute", "retry_execution"}

\* The connection sets the selector returns.
ConnectionSets == {{}, {"c1", "c2"}}

\* main's command loop spawns a task that calls execute(command); a caller of
\* retry_execution starts its loop.  The call remembers which calls had
\* returned when it started, and whether the selector has had connections to
\* return ever since.
ExecSpawn(command, entry) ==
    /\ Len(exec_calls) < MaxCalls
    /\ exec_calls' =
          Append(exec_calls,
                 [command |-> command, entry |-> entry, attempt |-> 0,
                  pc |-> "mint", client_order_id |-> None, result |-> None,
                  healthy |-> exec_healthy # {},
                  after |-> {j \in 1..Len(exec_calls) : exec_calls[j].pc = "done"}])
    /\ UNCHANGED <<exec_used_ids, exec_sent, exec_now, exec_healthy,
                   coreVars, lateVars, chainVars, pipeVars>>

\* execute, lines 55-60: take the caller's client_order_id or mint one.
ExecMintId(i) ==
    /\ exec_calls[i].pc = "mint"
    /\ LET call == exec_calls[i]
           minted == generate_client_order_id(exec_used_ids, call.command.id, exec_now)
       IN IF call.command.client_order_id # None
          THEN /\ exec_calls' = [exec_calls EXCEPT ![i].pc = "check",
                                    ![i].client_order_id = call.command.client_order_id]
               /\ UNCHANGED exec_used_ids
          ELSE /\ exec_calls' = [exec_calls EXCEPT ![i].pc = "check",
                                    ![i].client_order_id = minted.id]
               /\ exec_used_ids' = minted.used_ids
    /\ UNCHANGED <<exec_sent, exec_now, exec_healthy, coreVars, lateVars, chainVars, pipeVars>>

\* execute, lines 62-72: the duplicate check.
ExecCheckDuplicate(i) ==
    /\ exec_calls[i].pc = "check"
    /\ exec_calls' =
          [exec_calls EXCEPT ![i] =
              IF is_duplicate(exec_used_ids, @.client_order_id)
              THEN after_attempt(@, "Duplicate order", MaxRetryAttempts)
              ELSE [@ EXCEPT !.pc = "send"]]
    /\ UNCHANGED <<exec_used_ids, exec_sent, exec_now, exec_healthy,
                   coreVars, lateVars, chainVars, pipeVars>>

\* execute, lines 74-116: look up the signer, build the request, select the
\* connections and hand the request to send_concurrent.
ExecSend(i) ==
    /\ exec_calls[i].pc = "send"
    /\ LET call == exec_calls[i]
       IN IF call.command.exchange \notin signers
          THEN /\ exec_calls' = [exec_calls EXCEPT ![i] =
                                    after_attempt(@, "No signer", MaxRetryAttempts)]
               /\ UNCHANGED exec_sent
          ELSE IF exec_healthy = {}
          THEN /\ exec_calls' = [exec_calls EXCEPT ![i] =
                                    after_attempt(@, "No healthy connections",
                                                  MaxRetryAttempts)]
               /\ UNCHANGED exec_sent
          ELSE /\ exec_calls' = [exec_calls EXCEPT ![i].pc = "await"]
               /\ exec_sent' = Append(exec_sent,
                                      [call |-> i, attempt |-> call.attempt,
                                       client_order_id |-> call.client_order_id,
                                       connections |-> exec_healthy])
    /\ UNCHANGED <<exec_used_ids, exec_now, exec_healthy, coreVars, lateVars, chainVars, pipeVars>>

\* execute, lines 118-132: send_concurrent has returned; `accepted` says
\* whether some connection took the request, which is what makes
\* select_best_response return a response of status New.
ExecResponses(i, accepted) ==
    /\ exec_calls[i].pc = "await"
    /\ exec_calls' =
          [exec_calls EXCEPT ![i] =
              after_attempt(@, IF accepted THEN Success ELSE "Order execution failed",
                            MaxRetryAttempts)]
    /\ UNCHANGED <<exec_used_ids, exec_sent, exec_now, exec_healthy,
                   coreVars, lateVars, chainVars, pipeVars>>

\* A millisecond passes.
ExecTick ==
    /\ exec_now < MaxClock
    /\ exec_now' = exec_now + 1
    /\ UNCHANGED <<exec_used_ids, exec_calls, exec_sent, exec_healthy,
                   coreVars, lateVars, chainVars, pipeVars>>

\* The set of healthy connections changes.
ExecHealthChange(connections) ==
    /\ connections # exec_healthy
    /\ exec_healthy' = connections
    /\ exec_calls' =
          [i \in 1..Len(exec_calls) |->
              IF connections = {} /\ exec_calls[i].pc # "done"
              THEN [exec_calls[i] EXCEPT !.healthy = FALSE]
              ELSE exec_calls[i]]
    /\ UNCHANGED <<exec_used_ids, exec_sent, exec_now, coreVars, lateVars, chainVars, pipeVars>>

ExecSpawnAny == \E command \in ExecCommands, entry \in ExecEntries : ExecSpawn(command, entry)

ExecMint == \E i \in 1..Len(exec_calls) : ExecMintId(i)

ExecCheck == \E i \in 1..Len(exec_calls) : ExecCheckDuplicate(i)

ExecSelectSend == \E i \in 1..Len(exec_calls) : ExecSend(i)

ExecReturn == \E i \in 1..Len(exec_calls), accepted \in BOOLEAN : ExecResponses(i, accepted)

ExecHealth == \E connections \in ConnectionSets : ExecHealthChange(connections)

NextExec ==
    \/ ExecSpawnAny
    \/ ExecMint
    \/ ExecCheck
    \/ ExecSelectSend
    \/ ExecReturn
    \/ ExecTick
    \/ ExecHealth

SpecExec == Init /\ [][NextExec]_vars

\* ------------------------------------------------ claims on the executor
\* The fan-outs call i made.
FanOutsOf(i) == {k \in 1..Len(exec_sent) : exec_sent[k].call = i}

\* Call i is an execute call without a client_order_id, for an exchange with a
\* signer, and the selector had connections to return all through the call.
C4_Case(i) ==
    /\ exec_calls[i].entry = "execute"
    /\ exec_calls[i].command.client_order_id = None
    /\ exec_calls[i].command.exchange \in signers
    /\ exec_calls[i].healthy

\* C4: of two execute calls with the same command.id (no client_order_id, a
\* signer, healthy connections), the second made after the first returned, the
\* first selects connections, sends (one fan-out) and returns the transport
\* result, and the second returns "Duplicate order" and sends nothing.
C4_FirstSendsSecondIsDuplicate ==
    \A i \in 1..Len(exec_calls) :
       LET call == exec_calls[i]
           earlier == {j \in 1..(i - 1) : exec_calls[j].command.id = call.command.id}
       IN (/\ call.pc = "done"
           /\ C4_Case(i)
           /\ \A j \in earlier : C4_Case(j) /\ j \in call.after)
          => IF earlier = {}
             THEN /\ call.result \in {Success, "Order execution failed"}
                  /\ Cardinality(FanOutsOf(i)) = 1
             ELSE /\ call.result = "Duplicate order"
                  /\ FanOutsOf(i) = {}

\* C5: no client_order_id is fanned out to connections by more than one
\* execute call, whether the executor minted it or the caller supplied it, and
\* whether the calls are spawned concurrently or are the attempts of
\* retry_execution.
C5_NoIdFannedOutTwice ==
    \A a, b \in 1..Len(exec_sent) :
       exec_sent[a].client_order_id = exec_sent[b].client_order_id => a = b

\* ============================================ SpecChain: RiskRuleChain
\* RiskRuleChain::add_rule.  What the driver remembers of the last check_all
\* run is dropped with it: it was a run of the chain without the rule.
ChainAddRule(rule) ==
    /\ chain_pos = 0
    /\ Len(chain_rules) < MaxRules
    /\ chain_rules' = Append(chain_rules, rule)
    /\ chain_evaluated' = << >>
    /\ chain_result' = None
    /\ UNCHANGED <<chain_pos, coreVars, lateVars, execVars, pipeVars>>

\* check_all is called: the loop starts at the first rule.
ChainCheckAll ==
    /\ chain_pos = 0
    /\ chain_pos' = 1
    /\ chain_evaluated' = << >>
    /\ chain_result' = Running
    /\ UNCHANGED <<chain_rules, coreVars, lateVars, execVars, pipeVars>>

\* One round of the loop of check_all: the next rule is evaluated, and
\* check_all returns or moves on.
ChainCheckRule ==
    /\ chain_pos \in 1..Len(chain_rules)
    /\ LET r == check_rule(chain_rules[chain_pos], chain_pos)
       IN /\ chain_evaluated' = Append(chain_evaluated, chain_pos)
          /\ chain_result' = r
          /\ chain_pos' = IF r = Running THEN chain_pos + 1 ELSE 0
    /\ UNCHANGED <<chain_rules, coreVars, lateVars, execVars, pipeVars>>

\* The loop of check_all has run out of rules: Ok(true).
ChainReturnTrue ==
    /\ chain_pos = Len(chain_rules) + 1
    /\ chain_result' = "Ok(true)"
    /\ chain_pos' = 0
    /\ UNCHANGED <<chain_rules, chain_evaluated, coreVars, lateVars, execVars, pipeVars>>

ChainAdd == \E rule \in Rules : ChainAddRule(rule)

NextChain == ChainAdd \/ ChainCheckAll \/ ChainCheckRule \/ ChainReturnTrue

SpecChain == Init /\ [][NextChain]_vars

\* ------------------------------------------------ claims on the rule chain
\* The critical rules of the chain that fail: Ok(false) or Err.
C9_CriticalFailures ==
    {i \in 1..Len(chain_rules) :
        chain_rules[i].critical /\ chain_rules[i].outcome # "Ok(true)"}

C9_Upto(n) == [i \in 1..n |-> i]

\* C9: check_all evaluates the rules in registration order; it returns
\* Ok(false), or the error, at the first critical rule that returns Ok(false),
\* or Err, and evaluates no later rule; failures of non-critical rules do not
\* change the result; it returns Ok(true) exactly when no critical rule fails,
\* and then it has evaluated every rule.
C9_CheckAll ==
    /\ chain_pos > 0 => chain_evaluated = C9_Upto(chain_pos - 1)
    /\ (chain_pos = 0 /\ chain_result # None) =>
         IF C9_CriticalFailures = {}
         THEN /\ chain_result = "Ok(true)"
              /\ chain_evaluated = C9_Upto(Len(chain_rules))
         ELSE LET first == CHOOSE i \in C9_CriticalFailures :
                              \A j \in C9_CriticalFailures : i <= j
              IN /\ chain_evaluated = C9_Upto(first)
                 /\ chain_result =
                      IF chain_rules[first].outcome = "Ok(false)" THEN "Ok(false)"
                      ELSE "Err(" \o ToString(first) \o ")"

\* check_all returned the error of the third rule after a non-critical rule
\* failed and a non-critical rule raised an error.
C9_Witness ==
    /\ chain_pos = 0
    /\ chain_result = "Err(3)"
    /\ Len(chain_rules) = 3
    /\ ~chain_rules[1].critical /\ chain_rules[1].outcome = "Ok(false)"
    /\ ~chain_rules[2].critical /\ chain_rules[2].outcome = "Err"

\* ========================================== SpecPipe: the pre-pipeline
\* Signals the driver feeds to the pipeline.
PipeSignals ==
    [signal_type : {"Arbitrage", "Market", "Hedge"}, symbol : {"BTC"},
     price : {Some(100)}, quantity : {NoNumber, Some(2), Some(101)},
     priority : {3}]

\* Ages, in milliseconds, the signal has when check_signal_age looks at it.
PipeAges == {0, 100, 101}

\* A quota with some of the defaults of RiskQuota::new replaced.
QuotaWith(pending_orders, last_trade_time) ==
    [RiskQuota_new EXCEPT !.pending_orders = pending_orders,
                          !.last_trade_time = last_trade_time]

\* Shared states the driver runs the pipeline against, the time being 100 s:
\* the initial one, one with the pending-order quota used up, one that traded
\* 10 s ago, one that traded 60 s ago, one at the warning threshold, one at the
\* exposure limit, one with a position of 99 and one whose symbol traded 1000
\* times today, the last time 60 s ago, with nothing filled.
PipeStates ==
    {SharedState_new,
     [SharedState_new EXCEPT !.risk_quotas = [s \in {"BTC"} |-> QuotaWith(3, NoNumber)]],
     [SharedState_new EXCEPT !.risk_quotas = [s \in {"BTC"} |-> QuotaWith(0, Some(90))]],
     [SharedState_new EXCEPT !.risk_quotas = [s \in {"BTC"} |-> QuotaWith(0, Some(40))]],
     [SharedState_new EXCEPT !.total_exposure = Dec(25, 1000)],
     [SharedState_new EXCEPT !.total_exposure = Dec(3, 100)],
     [SharedState_new EXCEPT !.positions = [s \in {"BTC"} |-> [quantity |-> 99]]],
     [SharedState_new EXCEPT
        !.positions = [s \in {"BTC"} |-> [quantity |-> 0]],
        !.risk_quotas = [s \in {"BTC"} |->
                           [QuotaWith(0, Some(40)) EXCEPT !.daily_trades = 1000]]]}

\* execute_pre_pipeline is called with PreProcessContext::new(signal, state).
PipeStart(signal, age_ms, state) ==
    /\ pipe_pc \in {"idle", "done"}
    /\ pipe_pc' = PipeSteps[1]
    /\ pipe_ctx' = PreProcessContext_new(signal)
    /\ pipe_env' = [age_ms |-> age_ms, now |-> 100, state |-> state]
    /\ UNCHANGED <<pipe_result, coreVars, lateVars, execVars, chainVars>>

\* .pipe(check_signal_age)
PipeCheckSignalAge ==
    /\ pipe_pc = "check_signal_age"
    /\ pipe_ctx' = check_signal_age(pipe_ctx, pipe_env.age_ms)
    /\ pipe_pc' = "check_risk_control"
    /\ UNCHANGED <<pipe_env, pipe_result, coreVars, lateVars, execVars, chainVars>>

\* .pipe(check_risk_control)
PipeCheckRiskControl ==
    /\ pipe_pc = "check_risk_control"
    /\ pipe_ctx' = check_risk_control(pipe_ctx, pipe_env.state, pipe_env.now)
    /\ pipe_pc' = "check_position_limit"
    /\ UNCHANGED <<pipe_env, pipe_result, coreVars, lateVars, execVars, chainVars>>

\* .pipe(check_position_limit)
PipeCheckPositionLimit ==
    /\ pipe_pc = "check_position_limit"
    /\ pipe_ctx' = check_position_limit(pipe_ctx, pipe_env.state)
    /\ pipe_pc' = "construct_order"
    /\ UNCHANGED <<pipe_env, pipe_result, coreVars, lateVars, execVars, chainVars>>

\* .pipe(construct_order)
PipeConstructOrder ==
    /\ pipe_pc = "construct_order"
    /\ pipe_ctx' = construct_order(pipe_ctx)
    /\ pipe_pc' = "assign_priority"
    /\ UNCHANGED <<pipe_env, pipe_result, coreVars, lateVars, execVars, chainVars>>

\* .pipe(assign_priority)
PipeAssignPriority ==
    /\ pipe_pc = "assign_priority"
    /\ pipe_ctx' = assign_priority(pipe_ctx)
    /\ pipe_pc' = "return"
    /\ UNCHANGED <<pipe_env, pipe_result, coreVars, lateVars, execVars, chainVars>>

\* The if at the end of execute_pre_pipeline.
PipeReturn ==
    /\ pipe_pc = "return"
    /\ pipe_result' = pre_pipeline_result(pipe_ctx)
    /\ pipe_pc' = "done"
    /\ UNCHANGED <<pipe_ctx, pipe_env, coreVars, lateVars, execVars, chainVars>>

PipeStartAny ==
    \E signal \in PipeSignals, age_ms \in PipeAges, state \in PipeStates :
       PipeStart(signal, age_ms, state)

NextPipe ==
    \/ PipeStartAny
    \/ PipeCheckSignalAge
    \/ PipeCheckRiskControl
    \/ PipeCheckPositionLimit
    \/ PipeConstructOrder
    \/ PipeAssignPriority
    \/ PipeReturn

SpecPipe == Init /\ [][NextPipe]_vars

\* ------------------------------------------------ claims on the pre-pipeline
\* The three checks, asked of the signal and the state the run was given.
C10_ChecksPass ==
    /\ pipe_env.age_ms <= 100
    /\ risk_check(pipe_env.state, pipe_ctx.signal, pipe_env.now)
    /\ position_check(pipe_env.state, pipe_ctx.signal.symbol,
                      unwrap_or(pipe_ctx.signal.quantity, 0))

\* The steps are applied in the order of the list: every step hands over to
\* the next one of the list.
C10_StepsInOrder ==
    \A i \in 1..Len(PipeSteps) :
       pipe_pc = PipeSteps[i] =>
          pipe_pc' = IF i < Len(PipeSteps) THEN PipeSteps[i + 1] ELSE "done"

\* A step that finds should_continue = false returns the context as it got it.
C10_StoppedContextIsKept ==
    (pipe_pc \notin {"idle", "done"} /\ ~pipe_ctx.should_continue)
       => pipe_ctx' = pipe_ctx

\* A stopped run has no order, and its priority is the initial one.
C10_StoppedHasNoOrder ==
    (pipe_pc \notin {"idle", "done"} /\ ~pipe_ctx.should_continue)
       => pipe_ctx.order = NoOrder /\ pipe_ctx.priority = 5

\* The result is the constructed order when the three checks passed, and None
\* otherwise.
C10_Result ==
    pipe_pc = "done" =>
       IF C10_ChecksPass
       THEN pipe_result # NoOrder /\ pipe_result = pipe_ctx.order
       ELSE pipe_result = NoOrder

\* C10: execute_pre_pipeline applies check_signal_age, check_risk_control,
\* check_position_limit, construct_order and assign_priority in that order;
\* once should_continue is false every later step leaves the context
\* unchanged, so no order is constructed and no priority assigned; the result
\* is Some(order) only if the three checks passed and the order was
\* constructed, and None otherwise.
C10_PrePipeline ==
    /\ [][C10_StepsInOrder /\ C10_StoppedContextIsKept]_vars
    /\ [](C10_StoppedHasNoOrder /\ C10_Result)

\* A run that the position check stopped has returned None.
C10_Witness ==
    /\ pipe_pc = "done"
    /\ pipe_result = NoOrder
    /\ ~pipe_ctx.should_continue
    /\ pipe_env.age_ms <= 100
    /\ risk_check(pipe_env.state, pipe_ctx.signal, pipe_env.now)
    /\ ~position_check(pipe_env.state, pipe_ctx.signal.symbol,
                       unwrap_or(pipe_ctx.signal.quantity, 0))


\* ------------------------------------------- claims on check_risk_control
\* check_risk_control has just run on a signal that passed check_signal_age.
C20_AfterRiskControl ==
    /\ pipe_pc = "check_position_limit"
    /\ pipe_env.age_ms <= 100

\* What the rule chain returns for the signal and the state of the run.
C20_RuleChain ==
    check_all_from(default_rule_chain(pipe_ctx.signal, pipe_env.state, pipe_env.now), 1)

\* C20: check_risk_control decides as the rule chain does: on a signal that
\* reached it, it lets the signal through if and only if no critical rule
\* (PositionLimit, CapitalLimit, PendingOrders, TotalExposure, Cooldown)
\* vetoes; a daily_trades of 1000, which fails only the soft DailyTrades rule,
\* does not stop the signal.
C20_DecidesAsRuleChain ==
    C20_AfterRiskControl => (pipe_ctx.should_continue <=> C20_RuleChain = "Ok(true)")
\* ============================ SpecShared: the post-pipeline on SharedState
\* Symbol numbers of the execution reports.
ReportSymbols == {7, 8}

\* Execution reports the driver feeds to the post-pipeline (order ids,
\* exchange, order type and timestamp are not read by it).
SharedReports ==
    [symbol : ReportSymbols, side : {"Buy", "Sell"}, price : {100, 101},
     filled_quantity : {1, 3}, status : {"PartiallyFilled", "Filled"}]

RECURSIVE SumTrades(_, _)
\* The number of reports the post-pipeline has processed: update_risk_quota
\* counts each in daily_trades.
SumTrades(quotas, S) ==
    IF S = {} THEN 0
    ELSE LET s == CHOOSE x \in S : TRUE
         IN quotas[s].daily_trades + SumTrades(quotas, S \ {s})

\* process_execution_report, after the order manager accepted the report:
\* execute_post_pipeline(PostProcessContext::new(report, shared_state))
SharedPostPipeline(report) ==
    /\ SumTrades(shared_state.risk_quotas, DOMAIN shared_state.risk_quotas) < MaxReports
    /\ shared_state' = execute_post_pipeline(shared_state, report, proc_now)
    /\ proc_last' = "execution_report"
    /\ UNCHANGED <<risk_state, risk_initializer, proc_now, coreVars, restVars, healthVars, codecVars, extVars>>

\* process_signal on a RiskControlInit signal whose request marks the symbols
\* in restricted as restricted: the initializer's state is built, copied to
\* risk_state, and its summary is handed to update_risk_state.
ProcRiskControlInit(restricted) ==
    /\ risk_initializer' = [risk_initializer EXCEPT !.restricted_symbols = @ \cup restricted]
    /\ risk_state' = risk_initializer'
    /\ shared_state' = update_risk_state(shared_state, get_summary(risk_state'))
    /\ proc_last' = "risk_control_init"
    /\ UNCHANGED <<proc_now, coreVars, restVars, healthVars, codecVars, extVars>>

SharedReport == \E report \in SharedReports : SharedPostPipeline(report)

SharedRiskInit ==
    \E restricted \in SUBSET {format_symbol(7)} : ProcRiskControlInit(restricted)

NextShared == SharedReport \/ SharedRiskInit

SpecShared == Init /\ [][NextShared]_vars

\* ------------------------------------------------------- claims on exposure
\* |quantity * avg_price| of the position of a symbol number, zero without one.
C11_PositionExposure(n) ==
    IF format_symbol(n) \in DOMAIN shared_state.positions
    THEN LET p == shared_state.positions[format_symbol(n)]
             v == p.quantity * p.avg_price.num
         IN Dec(IF v < 0 THEN -v ELSE v, p.avg_price.den)
    ELSE Dec(0, 1)

C11_ExposureIsSum ==
    /\ DOMAIN shared_state.positions \subseteq {format_symbol(7), format_symbol(8)}
    /\ shared_state.total_exposure = dec_add(C11_PositionExposure(7), C11_PositionExposure(8))

\* C11: after every execution report the post-pipeline processes (buys and
\* sells, any symbol, sells through zero included), total_exposure equals the
\* sum over all positions of |quantity * avg_price|.
C11_ExposureAfterReports ==
    proc_last = "execution_report" => C11_ExposureIsSum

\* Two positions, one sold through zero to a negative quantity with a non-zero
\* average price, and a total exposure that is their sum.
C11_Witness ==
    /\ DOMAIN shared_state.positions = {format_symbol(7), format_symbol(8)}
    /\ \E s \in DOMAIN shared_state.positions :
          /\ shared_state.positions[s].quantity < 0
          /\ shared_state.positions[s].avg_price.num # 0
    /\ \E s \in DOMAIN shared_state.positions : shared_state.positions[s].quantity > 0
    /\ SumTrades(shared_state.risk_quotas, DOMAIN shared_state.risk_quotas) = MaxReports
    /\ proc_last = "execution_report"
    /\ C11_ExposureIsSum

\* ===================== SpecProc: the PrePostProcessor's handlers together
\* Signals the driver feeds to process_signal, all of one symbol.
ProcSignals ==
    [id : {"s1"}, signal_type : {"Market", "Hedge"}, symbol : {format_symbol(7)},
     price : {Some(100)}, quantity : {Some(2)}, priority : {3},
     arbitrage_id : {None}]

\* Ages, in milliseconds, of the signals when check_signal_age looks at them.
ProcAges == {0, 101}

\* Execution reports the driver feeds to process_execution_report.
ProcReports ==
    [order_id : {"o1", "x1"}, symbol : {7}, side : {"Buy", "Sell"}, price : {100},
     filled_quantity : {0, 1}, status : {"Placed", "Filled"}]

\* A pre-pipeline that counts the order it lets through in pending_orders.
execute_pre_pipeline_counting(signal, age_ms, state, now) ==
    LET ctx == assign_priority(construct_order(check_position_limit(
                 check_risk_control(
                    check_signal_age(PreProcessContext_new(signal), age_ms),
                    state, now),
                 state)))
        result == pre_pipeline_result(ctx)
        quota == IF signal.symbol \in DOMAIN state.risk_quotas
                 THEN state.risk_quotas[signal.symbol]
                 ELSE RiskQuota_new
    IN [result |-> result,
        state |-> IF result = NoOrder THEN state
                  ELSE [state EXCEPT !.risk_quotas =
                          MapInsert(@, signal.symbol,
                                    [quota EXCEPT !.pending_orders = @ + 1])]]

\* execute_pre_pipeline on PreProcessContext::new(signal, shared_state): the
\* five steps piped in order, then the return; every step takes the shared
\* state through borrow(), so the state it leaves is the one it was given.
execute_pre_pipeline(signal, age_ms, state, now) ==
    LET ctx == assign_priority(construct_order(check_position_limit(
                 check_risk_control(
                    check_signal_age(PreProcessContext_new(signal), age_ms),
                    state, now),
                 state)))
    IN [result |-> pre_pipeline_result(ctx), state |-> state]

\* PrePostProcessor::process_signal on a signal that is not a RiskControlInit:
\* the pre-pipeline, and for Ok(Some(_)) create_order_from_signal followed by
\* validate_order on the new order.
ProcProcessSignal(signal, age_ms) ==
    LET pre == execute_pre_pipeline(signal, age_ms, shared_state, proc_now)
        id == OMIdSeq[n_created + 1]
        order == from_signal(signal, id)
        created == sm_create_order(machines, histories, id)
        arb == IF order.arbitrage_id # None
               THEN arb_add_order(pairs, order_to_arbitrage, order.arbitrage_id, id)
               ELSE [pairs |-> pairs, order_to_arbitrage |-> order_to_arbitrage]
        validated == sm_transition_order(created.machines, created.histories, id, "Validate")
    IN /\ shared_state' = pre.state
       /\ IF pre.result # NoOrder
          THEN /\ machines' = validated.machines
               /\ histories' = validated.histories
               /\ orders' = MapInsert(orders, id,
                                      IF validated.ok
                                      THEN [order EXCEPT !.state = "Validated"]
                                      ELSE order)
               /\ queues' = IF validated.ok
                            THEN pq_push(queues, id, order.priority)
                            ELSE queues
               /\ pairs' = arb.pairs
               /\ order_to_arbitrage' = arb.order_to_arbitrage
               /\ n_created' = n_created + 1
               /\ add_order(order)
               /\ proc_last' = "signal_accepted"
          ELSE /\ UNCHANGED <<machines, histories, orders, bookIndexes, queues, pairs,
                              order_to_arbitrage, n_created>>
               /\ proc_last' = "signal_vetoed"
       /\ UNCHANGED <<risk_state, risk_initializer, proc_now, sm_result,
                      fills, pq_pushed, pq_popped, arb_stats,
                      restVars, healthVars, codecVars, extVars>>

\* Whether OrderManager::process_execution_report returns Ok: the order is
\* found and the transition its status asks for, if any, is a valid one.
process_execution_report_ok(report) ==
    LET order_id == lookup_order(orders, orders_by_exchange_id, report.order_id)
        event == CASE report.status = "Pending" -> "Acknowledge"
                   [] report.status = "PartiallyFilled" -> "PartialFill"
                   [] report.status = "Filled" -> "Fill"
                   [] report.status = "Cancelled" -> "CancelConfirmed"
                   [] report.status = "Rejected" -> "Reject"
                   [] OTHER -> ""
    IN /\ order_id # None
       /\ event # "" => sm_transition_order(machines, histories, order_id, event).ok

\* PrePostProcessor::process_execution_report: the order manager first, its
\* error returned through `?` (which ends the run loop), then the
\* post-pipeline on the shared state.
ProcProcessExecutionReport(report) ==
    /\ OMProcessExecutionReport(report)
    /\ IF process_execution_report_ok(report)
       THEN /\ shared_state' = execute_post_pipeline(shared_state, report, proc_now)
            /\ proc_last' = "execution_report"
       ELSE /\ proc_last' = "stopped"
            /\ UNCHANGED shared_state
    /\ UNCHANGED <<risk_state, risk_initializer, proc_now, healthVars, codecVars, extVars>>

\* GlobalRiskState::set_global_restriction on the processor's risk state
ProcSetGlobalRestriction ==
    /\ risk_state' = set_global_restriction(risk_state)
    /\ proc_last' = "set_global_restriction"
    /\ UNCHANGED <<shared_state, risk_initializer, proc_now, coreVars, restVars,
                   healthVars, codecVars, extVars>>

\* GlobalRiskState::clear_global_restriction on the processor's risk state
ProcClearGlobalRestriction ==
    /\ risk_state' = clear_global_restriction(risk_state)
    /\ proc_last' = "clear_global_restriction"
    /\ UNCHANGED <<shared_state, risk_initializer, proc_now, coreVars, restVars,
                   healthVars, codecVars, extVars>>

\* A minute passes on the clock Utc::now() reads.
ProcTick ==
    /\ proc_now < 60 * MaxProcTicks
    /\ proc_now' = proc_now + 60
    /\ proc_last' = "tick"
    /\ UNCHANGED <<shared_state, risk_state, risk_initializer, coreVars, restVars,
                   healthVars, codecVars, extVars>>

\* The run loop takes events until a handler returns an error.
ProcRunning == proc_last # "stopped"

ProcSignal ==
    /\ ProcRunning
    /\ n_created < MaxProcOrders
    /\ \E signal \in ProcSignals, age_ms \in ProcAges : ProcProcessSignal(signal, age_ms)

ProcRiskInit ==
    /\ ProcRunning
    /\ \E restricted \in SUBSET {format_symbol(7)} : ProcRiskControlInit(restricted)

ProcReport ==
    /\ ProcRunning
    /\ SumTrades(shared_state.risk_quotas, DOMAIN shared_state.risk_quotas) < MaxReports
    /\ \E report \in ProcReports : ProcProcessExecutionReport(report)

ProcRestrict == ProcRunning /\ ~risk_state.global_restricted /\ ProcSetGlobalRestriction

ProcUnrestrict == ProcRunning /\ risk_state.global_restricted /\ ProcClearGlobalRestriction

ProcClock == ProcRunning /\ ProcTick

NextProc ==
    \/ ProcSignal
    \/ ProcRiskInit
    \/ ProcReport
    \/ ProcRestrict
    \/ ProcUnrestrict
    \/ ProcClock

SpecProc == Init /\ [][NextProc]_vars

\* ------------------------------------------------- claims on process_signal
\* The orders of the book that are in no terminal state (all orders of
\* SpecProc are orders of the one symbol its signals carry).
C17_NonTerminalOrders ==
    {id \in DOMAIN orders : id \in DOMAIN machines /\ ~is_terminal(machines[id])}

\* C17: pending_orders counts the orders process_signal accepted, so that with
\* max_pending_orders at its default of 3 and three accepted orders of a
\* symbol in no terminal state, a fourth signal for the symbol is vetoed: an
\* accepted signal never leaves more than three such orders.
C17_FourthSignalVetoed ==
    proc_last = "signal_accepted" => Cardinality(C17_NonTerminalOrders) <= 3

\* C18: while risk_state.global_restricted is set, process_signal vetoes
\* every signal, whatever its symbol's quota, signals that arrive after the
\* flag was set at run time included: a signal is accepted only with the flag
\* clear.
C18_RestrictedVetoesAll ==
    proc_last = "signal_accepted" => ~risk_state.global_restricted

\* The part of a shared state the claim names: the positions, the counters of
\* every risk quota, and the total exposure.
C19_Counters(state) ==
    [positions |-> state.positions,
     quotas |-> [s \in DOMAIN state.risk_quotas |->
                   [current_position |-> state.risk_quotas[s].current_position,
                    current_capital |-> state.risk_quotas[s].current_capital,
                    pending_orders |-> state.risk_quotas[s].pending_orders,
                    daily_trades |-> state.risk_quotas[s].daily_trades,
                    last_trade_time |-> state.risk_quotas[s].last_trade_time]],
     total_exposure |-> state.total_exposure]

\* A step in which process_signal ran the pre-pipeline on a signal.
C19_PreRunStep == proc_last' \in {"signal_accepted", "signal_vetoed"}

\* A step that changes one of the named parts of the shared state.
C19_CountersChange == C19_Counters(shared_state)' # C19_Counters(shared_state)

C21_ClientOrderIdOfSignal ==
    \A a, b \in DOMAIN orders :
       orders[a].signal_id = orders[b].signal_id
          => orders[a].client_order_id = orders[b].client_order_id

\* C28: a failure while an execution report is handled (unknown order id,
\* invalid transition, duplicate or out-of-order report, exchange-initiated
\* Cancelled) is logged and swallowed: the main loop keeps running.
C28_MainLoopKeepsRunning == proc_last # "stopped"


\* ------------------------------------------------ claims on order priority
\* The priority assign_priority gives the signal type an order of SpecProc
\* came from (its signals are Hedge and Market signals).
C32_PriorityOfType(id) == IF orders[id].is_hedge THEN 8 ELSE 5

\* The validated orders whose ids wait in the priority queue.
C32_Waiting ==
    {id \in DOMAIN orders :
        /\ orders[id].state = "Validated"
        /\ \E b \in Bands : \E k \in 1..Len(queues[b]) : queues[b][k] = id}

\* C32: an accepted order is queued with the priority of its signal type
\* (Arbitrage 10, Hedge 8, Market 5), so the order get_next_pending_order
\* hands out is one that no waiting validated order outranks by signal type,
\* whatever the order of acceptance.
C32_HandedOutBySignalType ==
    /\ \A id \in DOMAIN orders : orders[id].priority = C32_PriorityOfType(id)
    /\ LET next == next_pending(queues, orders).ret
       IN next # None =>
             \A id \in C32_Waiting : C32_PriorityOfType(id) <= C32_PriorityOfType(next)
\* ============================================ SpecHealth: HealthTracker
\* Connection ids.
HealthConnections == {"c1"}

\* Round-trip times, in milliseconds, the executor reports.
HealthRtts == {0, 400, 6000}

\* HealthTracker::register_connection
HealthRegisterConnection(c) ==
    /\ health_metrics' = MapInsert(health_metrics, c, HealthMetrics_new)
    /\ UNCHANGED <<coreVars, restVars, procVars, codecVars, extVars>>

\* HealthTracker::update_success
HealthUpdateSuccess(c, rtt_ms) ==
    /\ c \in DOMAIN health_metrics
    /\ health_metrics[c].total_messages + health_metrics[c].total_errors < MaxUpdates
    /\ health_metrics' = [health_metrics EXCEPT ![c] = hm_update_success(@, rtt_ms)]
    /\ UNCHANGED <<coreVars, restVars, procVars, codecVars, extVars>>

\* HealthTracker::update_failure
HealthUpdateFailure(c) ==
    /\ c \in DOMAIN health_metrics
    /\ health_metrics[c].total_messages + health_metrics[c].total_errors < MaxUpdates
    /\ health_metrics' = [health_metrics EXCEPT ![c] = hm_update_failure(@)]
    /\ UNCHANGED <<coreVars, restVars, procVars, codecVars, extVars>>

HealthRegister == \E c \in HealthConnections : HealthRegisterConnection(c)

HealthSuccess == \E c \in HealthConnections, rtt_ms \in HealthRtts : HealthUpdateSuccess(c, rtt_ms)

HealthFailure == \E c \in HealthConnections : HealthUpdateFailure(c)

NextHealth == HealthRegister \/ HealthSuccess \/ HealthFailure

SpecHealth == Init /\ [][NextHealth]_vars

\* ------------------------------------------------- claims on health score
C12_ScoreInRange ==
    \A c \in DOMAIN health_metrics :
       /\ dec_ge(health_metrics[c].health_score, dec(0))
       /\ dec_ge(dec(100), health_metrics[c].health_score)

\* The step is an update_failure on c.
C12_ConsecutiveFailure(c) ==
    /\ c \in DOMAIN health_metrics /\ c \in DOMAIN health_metrics'
    /\ health_metrics'[c].total_errors = health_metrics[c].total_errors + 1
    /\ health_metrics'[c].consecutive_failures = health_metrics[c].consecutive_failures + 1

C12_FailureNeverRaisesScore ==
    \A c \in HealthConnections :
       C12_ConsecutiveFailure(c)
          => dec_ge(health_metrics[c].health_score, health_metrics'[c].health_score)

\* C12: health_score stays in [0, 100] under any sequence of update_success
\* and update_failure, and an update_failure never leaves the score above its
\* previous value (from a healthy state or not), so consecutive failures
\* starting from a healthy state are non-increasing.
C12_HealthScore ==
    []C12_ScoreInRange /\ [][C12_FailureNeverRaisesScore]_vars

\* A connection that was healthy with successes behind it and has taken five
\* consecutive failures: it is unhealthy and its score is below 50.
C12_Witness ==
    \E c \in DOMAIN health_metrics :
       /\ health_metrics[c].total_messages >= 1
       /\ health_metrics[c].consecutive_failures = 5
       /\ ~is_healthy(health_metrics[c])
       /\ ~dec_ge(health_metrics[c].health_score, dec(50))


\* ============================================== SpecCodec: the binary codec
\* u32 values: zero, and one with four distinct bytes.
U32Values == {0, 305419896}

\* f64 values by bit pattern: 0.0, 100.0 and -0.1.
F64Values ==
    {<<0, 0, 0, 0, 0, 0, 0, 0>>,
     <<64, 89, 0, 0, 0, 0, 0, 0>>,
     <<191, 185, 153, 153, 153, 153, 153, 154>>}

\* Option<f64> values: absent, and present with each of two values.
OptionF64Values == {NoNumber, Some(<<0, 0, 0, 0, 0, 0, 0, 0>>), Some(<<64, 89, 0, 0, 0, 0, 0, 0>>)}

\* Timestamps as Utc::now() and the exchanges produce them: the epoch, one on
\* a whole millisecond, one with microseconds and nanoseconds below the
\* millisecond, and one before the epoch.
DateTimeValues ==
    {[secs |-> 0, nanos |-> 0],
     [secs |-> 1700, nanos |-> 123000000],
     [secs |-> 1700, nanos |-> 123456789],
     [secs |-> -1, nanos |-> 999000000]}

\* The characters of the driver's strings: 'a' (one byte of UTF-8) and
\* U+00E9 (two bytes).
CodePoints == {97, 233}

\* The strings of at most n characters.
StringsUpTo(n) == UNION {[1..k -> CodePoints] : k \in 0..n}

ReasonStrings == StringsUpTo(MaxStringLen)

OrderIdStrings == StringsUpTo(1)

Signals ==
    [type : {"AdaptiveSpreadDeviation"}, exchange_id : U32Values, symbol_id : U32Values,
     spread_percentile : F64Values, current_spread : F64Values,
     threshold_percentile : {<<64, 89, 0, 0, 0, 0, 0, 0>>}, timestamp : DateTimeValues]
    \cup
    [type : {"FixedSpreadDeviation"}, exchange_id : U32Values, symbol_id : U32Values,
     current_spread : F64Values, fixed_threshold : F64Values, timestamp : DateTimeValues]
    \cup
    [type : {"FundingRateDirection"}, exchange_id : U32Values, symbol_id : U32Values,
     funding_rate : F64Values, direction : {"Positive", "Negative", "Neutral"},
     timestamp : DateTimeValues]
    \cup
    [type : {"RealTimeFundingRisk"}, exchange_id : U32Values, symbol_id : U32Values,
     risk_level : {"Low", "Medium", "High", "Critical"},
     funding_rate : F64Values, position_cost : {<<0, 0, 0, 0, 0, 0, 0, 0>>},
     timestamp : DateTimeValues]
    \cup
    [type : {"OrderResponse"}, order_id : ReasonStrings, exchange_id : U32Values,
     symbol_id : U32Values,
     status : {"Filled", "PartiallyFilled", "Rejected", "Cancelled"},
     timestamp : DateTimeValues]

\* The trading events with the given reasons and timestamps.
TradingEventsOver(reasons, stamps) ==
    [type : {"OpenPosition", "ClosePosition"}, symbol : {305419896},
     exchange : {"Binance", "OKX", "Bybit", "Bitget"}, side : {"Buy", "Sell"},
     quantity : {<<64, 89, 0, 0, 0, 0, 0, 0>>},
     order_type : {"Market", "Limit", "PostOnly"}, price : OptionF64Values,
     trigger_type : {"MTTrigger", "MTCloseTrigger", "HedgeTrigger"},
     reason : reasons, timestamp : stamps]
    \cup
    [type : {"HedgePosition"}, symbol : {305419896},
     primary_exchange : {"Binance", "OKX", "Bybit", "Bitget"},
     hedge_exchange : {"OKX", "Bitget"}, side : {"Buy", "Sell"},
     quantity : {<<191, 185, 153, 153, 153, 153, 153, 154>>},
     trigger_type : {"MTTrigger", "MTCloseTrigger", "HedgeTrigger"},
     reason : reasons, timestamp : stamps]
    \cup
    [type : {"CancelOrder"}, order_id : OrderIdStrings, symbol : U32Values,
     exchange : {"Binance", "OKX", "Bybit", "Bitget"},
     reason : reasons, timestamp : stamps]
    \cup
    [type : {"ModifyOrder"}, order_id : OrderIdStrings, symbol : {305419896},
     exchange : {"Binance", "Bybit"},
     new_price : OptionF64Values, new_quantity : OptionF64Values,
     reason : reasons, timestamp : stamps]

TradingEvents == TradingEventsOver(ReasonStrings, DateTimeValues)

EventMessages ==
    [event : TradingEventsOver({<< >>, <<233, 97>>},
                               {[secs |-> 1700, nanos |-> 123000000],
                                [secs |-> 1700, nanos |-> 123456789]}),
     sequence_id : U32Values,
     timestamp : DateTimeValues]

\* A caller serialises x.
CodecToBytes(type, x, bytes) ==
    /\ codec_type' = type
    /\ codec_value' = Some(x)
    /\ codec_bytes' = bytes
    /\ codec_again' = << >>
    /\ codec_result' = << >>
    /\ UNCHANGED <<coreVars, restVars, procVars, healthVars, extVars>>

\* The driver follows one value through the codec: it picks the value in the
\* initial state.
SignalToBytes ==
    /\ codec_value = << >>
    /\ \E x \in Signals : CodecToBytes("Signal", x, Signal_to_bytes(x))

EventToBytes ==
    /\ codec_value = << >>
    /\ \E x \in TradingEvents : CodecToBytes("TradingEvent", x, TradingEvent_to_bytes(x))

MessageToBytes ==
    /\ codec_value = << >>
    /\ \E x \in EventMessages : CodecToBytes("EventMessage", x, EventMessage_to_bytes(x))

\* to_bytes of the value of the given type.
to_bytes(type, x) ==
    CASE type = "Signal" -> Signal_to_bytes(x)
      [] type = "TradingEvent" -> TradingEvent_to_bytes(x)
      [] type = "EventMessage" -> EventMessage_to_bytes(x)

\* from_bytes of the given type.
from_bytes(type, bytes) ==
    CASE type = "Signal" -> Signal_from_bytes(bytes)
      [] type = "TradingEvent" -> TradingEvent_from_bytes(bytes)
      [] type = "EventMessage" -> EventMessage_from_bytes(bytes)

\* The caller serialises the same value a second time.
CodecToBytesAgain ==
    /\ codec_value # << >>
    /\ codec_again = << >>
    /\ codec_again' = Some(to_bytes(codec_type, codec_value[1]))
    /\ UNCHANGED <<codec_type, codec_value, codec_bytes, codec_result>>
    /\ UNCHANGED <<coreVars, restVars, procVars, healthVars, extVars>>

\* The receiver parses the bytes.
CodecFromBytes ==
    /\ codec_value # << >>
    /\ codec_result = << >>
    /\ codec_result' = Some(from_bytes(codec_type, codec_bytes))
    /\ UNCHANGED <<codec_type, codec_value, codec_bytes, codec_again>>
    /\ UNCHANGED <<coreVars, restVars, procVars, healthVars, extVars>>

NextCodec ==
    SignalToBytes \/ EventToBytes \/ MessageToBytes \/ CodecToBytesAgain \/ CodecFromBytes

SpecCodec == Init /\ [][NextCodec]_vars

\* ---------------------------------------------------- claims on the codec
\* t without what it carries below the millisecond.
C13_WholeMillis(t) == [t EXCEPT !.nanos = (@ \div 1000000) * 1000000]

\* x of the given type with every timestamp cut to the millisecond.
C13_CutToMillis(type, x) ==
    IF type = "EventMessage"
    THEN [x EXCEPT !.timestamp = C13_WholeMillis(@),
                   !.event.timestamp = C13_WholeMillis(@)]
    ELSE [x EXCEPT !.timestamp = C13_WholeMillis(@)]

\* A second to_bytes call returned the bytes of the first.
C13_SameBytes == codec_again # << >> => codec_again[1] = codec_bytes

SignalTimestamps == 1 .. MaxTimestamp

\* Signals the subscribers hand to the dispatch loop.
CollectorSignals ==
    [signal_type : {"AdaptiveSpreadDeviation"}, symbol_id : {7},
     spread_percentile : {50, 90}, timestamp : SignalTimestamps]
    \cup
    [signal_type : {"FundingRateDirection"}, symbol_id : {7},
     funding_rate : {5, -20}, direction : {"Positive", "Negative", "Neutral"},
     timestamp : SignalTimestamps]

\* Signal indices and trigger indices of the registration calls; 8 is no
\* index of the table and 3 no index of the registry.
RegisterSignalIndices == {0, 8}

RegisterTriggerIndices == {0, 3}

\* SignalManager::register_trigger
ColRegisterTrigger(signal_idx, trigger_idx) ==
    /\ sig_triggers' = register_trigger(sig_triggers, signal_idx, trigger_idx)
    /\ col_op' = "register_trigger"
    /\ UNCHANGED <<sig_last, col_signal, col_evaluated, col_published, col_received,
                   exceptCollector>>

\* SignalManager::unregister_trigger
ColUnregisterTrigger(signal_idx, trigger_idx) ==
    /\ sig_triggers' = unregister_trigger(sig_triggers, signal_idx, trigger_idx)
    /\ col_op' = "unregister_trigger"
    /\ UNCHANGED <<sig_last, col_signal, col_evaluated, col_published, col_received,
                   exceptCollector>>

\* The body of the dispatch loop of main for one inbound signal.
ColDispatch(signal) ==
    LET last == update_signal(sig_last, signal)
        trigger_indices == get_trigger_indices_for_signal(sig_triggers, signal.signal_type)
        evaluated == evaluate_from(DefaultTriggers, trigger_indices, 1, last, signal)
        idx == signal_type_to_idx(signal.signal_type)
    IN /\ sig_last' = last
       /\ col_signal' = <<signal>>
       /\ col_evaluated' = evaluated
       /\ col_published' = sent_events(evaluated)
       /\ col_received' = [col_received EXCEPT ![idx] = @ \cup {signal.timestamp}]
       /\ col_op' = "dispatch"
       /\ UNCHANGED <<sig_triggers, exceptCollector>>

ColRegister ==
    \E signal_idx \in RegisterSignalIndices, trigger_idx \in RegisterTriggerIndices :
       ColRegisterTrigger(signal_idx, trigger_idx)

ColUnregister ==
    \E signal_idx \in RegisterSignalIndices, trigger_idx \in RegisterTriggerIndices :
       ColUnregisterTrigger(signal_idx, trigger_idx)

ColSignal == \E signal \in CollectorSignals : ColDispatch(signal)

NextCollector == ColRegister \/ ColUnregister \/ ColSignal

SpecCollector == Init /\ [][NextCollector]_vars

\* ------------------------------------------------ claims on the signal table
\* The newest of a non-empty set of timestamps.
C22_Newest(S) == CHOOSE t \in S : \A u \in S : u <= t

\* C22: for every signal kind, after any sequence of update_signal calls the
\* stored last_signal is the one with the newest timestamp among the signals
\* of the kind received so far: an older signal that arrives late does not
\* overwrite it.
C22_TableHoldsNewest ==
    \A i \in SignalIndices :
       col_received[i] # {} =>
          /\ sig_last[i] # NoLastSignal
          /\ sig_last[i][1].timestamp = C22_Newest(col_received[i])

\* ----------------------------------------------- claims on the dispatcher
\* The trigger indices the table holds for the kind of the dispatched signal
\* that name a trigger of the registry.
C23_Registered ==
    {t \in 0 .. Len(DefaultTriggers) - 1 :
        seq_contains(get_trigger_indices_for_signal(sig_triggers,
                                                    col_signal[1].signal_type), t)}

\* C23: when the dispatch loop has handled a signal, every trigger it
\* evaluated saw that signal as the last signal of its kind; the triggers
\* evaluated are exactly those registered for the signal's kind, each once,
\* in ascending order of trigger index, whatever register_trigger and
\* unregister_trigger calls came before; the events published are the
\* Some(event) results in that order.
C23_DispatchInIndexOrder ==
    col_op = "dispatch" =>
       /\ \A i \in 1 .. Len(col_evaluated) : col_evaluated[i].saw = col_signal
       /\ {col_evaluated[i].trigger_idx : i \in 1 .. Len(col_evaluated)} = C23_Registered
       /\ \A i, j \in 1 .. Len(col_evaluated) :
             i < j => col_evaluated[i].trigger_idx < col_evaluated[j].trigger_idx
       /\ col_published = sent_events(col_evaluated)

\* ===================== SpecResponse: execute, from the responses on
\* The responses a connection can give: any status, with or without an error.
OrderResponses ==
    [status : EngineOrderStatus, error : {NoError, <<"error">>}]

\* execute, lines 112-132, after send_concurrent returned one more response
\* than the last time: select_best_response and the ExecutionResult.
RespExecute(response) ==
    /\ resp_responses' = Append(resp_responses, response)
    /\ resp_selected' = select_best_response(resp_responses')
    /\ resp_success' = execution_success(resp_selected')
    /\ UNCHANGED exceptResponse

\* execute when send_concurrent returned nothing.
RespExecuteNone ==
    /\ resp_responses' = << >>
    /\ resp_selected' = select_best_response(resp_responses')
    /\ resp_success' = execution_success(resp_selected')
    /\ UNCHANGED exceptResponse

RespSome ==
    /\ Len(resp_responses) < MaxResponses
    /\ \E response \in OrderResponses : RespExecute(response)

RespNone == resp_responses # << >> /\ RespExecuteNone

NextResponse == RespSome \/ RespNone

SpecResponse == Init /\ [][NextResponse]_vars

\* --------------------------------------- claims on select_best_response
\* The responses without an error.
C24_Usable == {i \in 1 .. Len(resp_responses) : resp_responses[i].error = NoError}

\* The claim's order of the statuses, lowest first.
C24_Order == <<"Rejected", "Expired", "Canceled", "New", "PartiallyFilled", "Filled">>

\* The place of a status in that order.
C24_Rank(status) == CHOOSE n \in 1 .. Len(C24_Order) : C24_Order[n] = status

\* C24: select_best_response ignores every response with an error and
\* returns, among the others, one of highest status priority (Filled >
\* PartiallyFilled > New > Cancelled > Expired > Rejected), or None if there
\* is none; execute reports success if and only if a response was selected
\* and its status is New, PartiallyFilled or Filled.
C24_BestResponse ==
    /\ (resp_selected = NoResponse) <=> (C24_Usable = {})
    /\ resp_selected # NoResponse =>
          /\ \E i \in C24_Usable : resp_responses[i] = resp_selected[1]
          /\ \A i \in C24_Usable :
                C24_Rank(resp_responses[i].status) <= C24_Rank(resp_selected[1].status)
    /\ resp_success <=>
          (/\ resp_selected # NoResponse
           /\ resp_selected[1].status \in {"New", "PartiallyFilled", "Filled"})

\* Three responses: a Filled one with an error, a Cancelled one and a
\* Rejected one without; the Cancelled one is selected and execute fails.
C24_Witness ==
    /\ Len(resp_responses) = 3
    /\ \E i \in 1 .. 3 : resp_responses[i].status = "Filled" /\ resp_responses[i].error # NoError
    /\ \E i \in C24_Usable : resp_responses[i].status = "Rejected"
    /\ resp_selected = <<[status |-> "Canceled", error |-> NoError]>>
    /\ ~resp_success

\* ========================= SpecSelector: ConnectionSelector and its tracker
\* Connection ids.
SelConnections == {"c1", "c2"}

\* The (exchange, market type) pairs of connections and of commands.
SelPairs == {<<"binance", "spot">>, <<"binance", "futures">>}

\* Round-trip times, in milliseconds, the executor reports.
SelRtts == {6000}

\* concurrent_send_count
SelCounts == {1, 2}

\* The orders metrics.iter() can visit the ids in.
iteration_orders(ids) ==
    {p \in [1 .. Cardinality(ids) -> ids] :
        \A i, j \in 1 .. Cardinality(ids) : i # j => p[i] # p[j]}

\* The list select_round_robin walks for a pair.
SelList(metrics, order, pair) ==
    connection_ids_of(get_healthy_connections(metrics, order, pair[1], pair[2], 30))

\* The log after the tracker changed: a pair whose list changed starts anew.
SelLogAfter(metrics, order) ==
    [pair \in DOMAIN sel_log |->
        IF SelList(metrics, order, pair) = SelList(sel_metrics, sel_order, pair)
        THEN sel_log[pair] ELSE << >>]

\* update_success and update_failure calls so far.
SelUpdates ==
    LET n(c) == sel_metrics[c].total_messages + sel_metrics[c].total_errors
        ids == DOMAIN sel_metrics
    IN (IF "c1" \in ids THEN n("c1") ELSE 0) + (IF "c2" \in ids THEN n("c2") ELSE 0)

\* ConnectionSelector::new
SelNew(strategy) ==
    /\ sel_strategy = NoStrategy
    /\ sel_strategy' = strategy
    /\ UNCHANGED <<sel_metrics, sel_order, sel_indices, sel_last, sel_log, exceptSelector>>

\* HealthTracker::register_connection of a fresh id; the map's iteration
\* order afterwards is any order of its keys.
SelRegisterConnection(c, pair, order) ==
    /\ sel_metrics' = MapInsert(sel_metrics, c, HealthMetrics_of(c, pair[1], pair[2]))
    /\ sel_order' = order
    /\ sel_log' = SelLogAfter(sel_metrics', sel_order')
    /\ sel_last' = NoCall
    /\ UNCHANGED <<sel_strategy, sel_indices, exceptSelector>>

\* HealthTracker::update_success
SelUpdateSuccess(c, rtt_ms) ==
    /\ c \in DOMAIN sel_metrics
    /\ sel_metrics' = [sel_metrics EXCEPT ![c] = hm_update_success(@, rtt_ms)]
    /\ sel_log' = SelLogAfter(sel_metrics', sel_order)
    /\ sel_last' = NoCall
    /\ UNCHANGED <<sel_order, sel_strategy, sel_indices, exceptSelector>>

\* HealthTracker::update_failure
SelUpdateFailure(c) ==
    /\ c \in DOMAIN sel_metrics
    /\ sel_metrics' = [sel_metrics EXCEPT ![c] = hm_update_failure(@)]
    /\ sel_log' = SelLogAfter(sel_metrics', sel_order)
    /\ sel_last' = NoCall
    /\ UNCHANGED <<sel_order, sel_strategy, sel_indices, exceptSelector>>

\* The log entry of a select_connections call; the entry is dropped when the
\* tracker changes.
SelCall(pair, count, result) ==
    <<[exchange |-> pair[1], market_type |-> pair[2], count |-> count, result |-> result]>>

\* ConnectionSelector::select_connections
SelSelectConnections(pair, count) ==
    /\ sel_strategy # NoStrategy
    /\ CASE sel_strategy = "RoundRobin" ->
              LET r == select_round_robin(sel_metrics, sel_order, sel_indices,
                                          pair[1], pair[2], count)
              IN /\ sel_indices' = r.indices
                 /\ sel_last' = SelCall(pair, count, r.selected)
                 /\ sel_log' = MapInsert(sel_log, pair,
                                         (IF pair \in DOMAIN sel_log THEN sel_log[pair]
                                          ELSE << >>) \o r.selected)
         [] sel_strategy = "HealthScore" ->
              /\ sel_last' = SelCall(pair, count,
                                     select_by_health(sel_metrics, sel_order,
                                                      pair[1], pair[2], count))
              /\ UNCHANGED <<sel_indices, sel_log>>
         [] sel_strategy = "LeastLatency" ->
              /\ sel_last' = SelCall(pair, count,
                                     select_by_latency(sel_metrics, sel_order,
                                                       pair[1], pair[2], count))
              /\ UNCHANGED <<sel_indices, sel_log>>
         [] sel_strategy = "Random" ->
              /\ \E result \in select_random(sel_metrics, sel_order, pair[1], pair[2], count) :
                    sel_last' = SelCall(pair, count, result)
              /\ UNCHANGED <<sel_indices, sel_log>>
    /\ UNCHANGED <<sel_metrics, sel_order, sel_strategy, exceptSelector>>

SelConstruct == \E strategy \in SelectionStrategy : SelNew(strategy)

\* The ids are fresh Uuids: they are handed out in one order.
SelFresh ==
    IF "c1" \notin DOMAIN sel_metrics THEN {"c1"}
    ELSE SelConnections \ DOMAIN sel_metrics

\* main builds the tracker and the selector before anything uses them.
SelRegister ==
    /\ sel_strategy # NoStrategy
    /\ \E c \in SelFresh, pair \in SelPairs :
          \E order \in iteration_orders(DOMAIN sel_metrics \cup {c}) :
             SelRegisterConnection(c, pair, order)

SelSuccess ==
    /\ SelUpdates < MaxSelUpdates
    /\ \E c \in SelConnections, rtt_ms \in SelRtts : SelUpdateSuccess(c, rtt_ms)

SelFailure ==
    /\ SelUpdates < MaxSelUpdates
    /\ \E c \in SelConnections : SelUpdateFailure(c)

\* The log of a pair has room for count more ids.
SelHasRoom(pair, count) ==
    pair \in DOMAIN sel_log => Len(sel_log[pair]) + count <= MaxSelLog

SelSelect ==
    \E pair \in SelPairs, count \in SelCounts :
       SelHasRoom(pair, count) /\ SelSelectConnections(pair, count)

NextSelector == SelConstruct \/ SelRegister \/ SelSuccess \/ SelFailure \/ SelSelect

SpecSelector == Init /\ [][NextSelector]_vars

\* --------------------------------------------- claims on select_connections
\* The last call returned at most count ids, pairwise distinct, each
\* registered for the call's exchange and market type and healthy.
C25_Selected ==
    sel_last # NoCall =>
       LET call == sel_last[1]
           result == call.result
       IN /\ Len(result) <= call.count
          /\ \A i, j \in 1 .. Len(result) : i # j => result[i] # result[j]
          /\ \A i \in 1 .. Len(result) :
                /\ result[i] \in DOMAIN sel_metrics
                /\ sel_metrics[result[i]].exchange = call.exchange
                /\ sel_metrics[result[i]].market_type = call.market_type
                /\ dec_ge(sel_metrics[result[i]].health_score, dec(50))
                /\ sel_metrics[result[i]].consecutive_failures < 5

\* The place of an id in a list.
C25_Place(list, id) == CHOOSE n \in 1 .. Len(list) : list[n] = id

\* Over an unchanged list the round-robin calls for a pair walk the list
\* entry by entry, wrapping at its end, and so return every entry before
\* they return any entry twice.
C25_RoundRobin ==
    \A pair \in DOMAIN sel_log :
       LET log == sel_log[pair]
           list == SelList(sel_metrics, sel_order, pair)
       IN /\ \A i \in 1 .. Len(log) : \E n \in 1 .. Len(list) : list[n] = log[i]
          /\ \A i \in 1 .. Len(log) - 1 :
                C25_Place(list, log[i + 1]) = (C25_Place(list, log[i]) % Len(list)) + 1
          /\ \A i, j \in 1 .. Len(log) :
                (i < j /\ log[i] = log[j]) =>
                   \A n \in 1 .. Len(list) : \E k \in i .. j - 1 : log[k] = list[n]

\* C25: under every strategy select_connections(exchange, market_type, k)
\* returns at most k ids, pairwise distinct, each registered for that exchange
\* and market type and healthy (health_score >= 50, consecutive_failures < 5);
\* under RoundRobin successive calls over an unchanged filtered list advance
\* the pair's cursor, wrapping modulo the list, so that every entry is
\* returned before any is returned twice.
C25_SelectConnections == C25_Selected /\ C25_RoundRobin

\* Round robin over the two healthy connections of a pair, one of them with
\* a failure behind it: a call for one id and a call for two have returned
\* the first id, then the second and the first again.
C25_Witness ==
    /\ sel_strategy = "RoundRobin"
    /\ sel_last # NoCall
    /\ sel_last[1].count = 2
    /\ Len(sel_last[1].result) = 2
    /\ \E pair \in DOMAIN sel_log :
          /\ pair = <<sel_last[1].exchange, sel_last[1].market_type>>
          /\ Len(sel_log[pair]) = 3
          /\ sel_log[pair][1] = sel_log[pair][3]
          /\ sel_log[pair][1] # sel_log[pair][2]
    /\ \E c \in DOMAIN sel_metrics : sel_metrics[c].total_errors >= 1

\* =============== SpecRecover: execute over the selector and the tracker
\* Round-trip times, in milliseconds, send_concurrent measures.
RecRtts == {0}

\* The exchange and market type of the connections and of the commands.
RecPair == <<"binance", "spot">>

\* update_success and update_failure calls made for a connection.
RecUpdates(c) == sel_metrics[c].total_messages + sel_metrics[c].total_errors

\* OrderExecutor::execute for a command that is no duplicate and has a signer:
\* select_connections, then send_concurrent to the ids selected.  With no id
\* selected execute returns "No healthy connections" and nothing changes.
RecExecuteCommand(pair, count, rtt_ms) ==
    /\ sel_strategy # NoStrategy
    /\ \E r \in select_connections(sel_metrics, sel_order, sel_indices, sel_strategy,
                                   pair[1], pair[2], count) :
          /\ \A i \in 1 .. Len(r.selected) : RecUpdates(r.selected[i]) < MaxRecUpdates
          /\ sel_indices' = r.indices
          /\ sel_metrics' = send_concurrent(sel_metrics, r.selected, rec_delivers, rtt_ms)
    /\ rec_executed' = 1 - rec_executed
    /\ UNCHANGED <<sel_order, sel_strategy, sel_last, sel_log, rec_delivers, exceptRecover>>

\* The runner of connection c lost its socket or stalls: sends to c fail.
RecConnectionLost(c) ==
    /\ rec_delivers[c]
    /\ rec_delivers' = [rec_delivers EXCEPT ![c] = FALSE]
    /\ UNCHANGED <<selectorVars, rec_executed, exceptRecover>>

\* The runner of connection c has reconnected: sends to c are delivered.
RecConnectionBack(c) ==
    /\ ~rec_delivers[c]
    /\ rec_delivers' = [rec_delivers EXCEPT ![c] = TRUE]
    /\ UNCHANGED <<selectorVars, rec_executed, exceptRecover>>

\* main registers the connections of the pool once the selector is built; the
\* map's iteration order afterwards is any order of its keys.
RecRegister ==
    /\ sel_strategy # NoStrategy
    /\ \E c \in SelFresh :
          \E order \in iteration_orders(DOMAIN sel_metrics \cup {c}) :
             SelRegisterConnection(c, RecPair, order)

RecExecute ==
    \E count \in SelCounts, rtt_ms \in RecRtts : RecExecuteCommand(RecPair, count, rtt_ms)

RecLost == \E c \in RecConnections : RecConnectionLost(c)

RecBack == \E c \in RecConnections : RecConnectionBack(c)

NextRecover ==
    \/ SelConstruct
    \/ RecRegister
    \/ RecExecute
    \/ RecLost
    \/ RecBack

\* The runner of a connection that is down keeps trying to connect, and the
\* exchange accepts it in the end.
SpecRecover ==
    /\ Init
    /\ [][NextRecover]_vars
    /\ \A c \in RecConnections : WF_vars(RecConnectionBack(c))

\* ------------------------------------------- claims on health recovery
\* The connection is registered and get_healthy_connections leaves it out.
C40_Excluded(c) == c \in DOMAIN sel_metrics /\ ~is_healthy(sel_metrics[c])

\* Some select_connections call for the connection's exchange and market type
\* returns it.
C40_Selectable(c) ==
    /\ c \in DOMAIN sel_metrics
    /\ sel_strategy # NoStrategy
    /\ \E count \in SelCounts :
          \E r \in select_connections(sel_metrics, sel_order, sel_indices, sel_strategy,
                                      sel_metrics[c].exchange, sel_metrics[c].market_type,
                                      count) :
             \E i \in 1 .. Len(r.selected) : r.selected[i] = c

\* The engine goes on executing commands for ever.
C40_KeepsExecuting == []<>(rec_executed = 0) /\ []<>(rec_executed = 1)

\* C40: a connection excluded from selection because it became unhealthy
\* becomes selectable again after recovery: while the engine goes on
\* executing commands, from the moment sends to the connection are delivered
\* again select_connections returns it again at some point, unless the
\* connection is lost once more before that.
C40_ExcludedRecovers ==
    C40_KeepsExecuting =>
       \A c \in RecConnections :
          (C40_Excluded(c) /\ rec_delivers[c]) ~> (C40_Selectable(c) \/ ~rec_delivers[c])
\* ================================ SpecWs: the runners and WsPool::shutdown
WsConnecting == \E r \in WsRunners, ok \in BOOLEAN : WsConnect(r, ok)

WsErrorSleep == \E r \in WsRunners : WsErrorSleepDone(r)

WsSubscribing == \E r \in WsRunners, ok \in BOOLEAN : WsSubscribe(r, ok)

WsObserve == \E r \in WsRunners : WsShutdownChanged(r)

WsTimeout == \E r \in WsRunners, sent \in BOOLEAN : WsTimer(r, sent)

WsReceive == \E r \in WsRunners, msg \in WsMessages : WsMessage(r, msg)

WsReconnectSleep == \E r \in WsRunners : WsReconnectSleepDone(r)

WsClock == \E r \in WsRunners : WsElapse(r)

\* The connection ids send_concurrent is given: the pool's connections and an
\* id the pool does not hold.
WsSendIds == WsRunners \cup {"unknown"}

WsSend == \E id \in WsSendIds : WsSendConcurrent(id)

\* main calls shutdown once, after the termination signal.
WsShutdownOnce == ~ws_shutdown /\ WsPoolShutdown

NextWs ==
    \/ WsConnecting \/ WsErrorSleep \/ WsSubscribing \/ WsObserve
    \/ WsTimeout \/ WsReceive \/ WsReconnectSleep \/ WsShutdownOnce
    \/ WsClock \/ WsSend

SpecWs == Init /\ [][NextWs]_vars

\* A step of runner r other than through the shutdown branch of its select.
WsRunnerStep(r) ==
    \/ \E ok \in BOOLEAN : WsConnect(r, ok) \/ WsSubscribe(r, ok)
    \/ WsErrorSleepDone(r)
    \/ WsReconnectSleepDone(r)
    \/ WsElapse(r)
    \/ \E sent \in BOOLEAN : WsTimer(r, sent)

\* The tokio runtime keeps polling every task, so connect attempts and sleeps
\* come to an end; select! picks at random among its ready branches, so a
\* runner that is at its select again and again with changed() ready takes
\* that branch in the end.
SpecWsLive ==
    /\ SpecWs
    /\ \A r \in WsRunners : WF_vars(WsRunnerStep(r)) /\ SF_vars(WsShutdownChanged(r))

\* ------------------------------------------------------ claims on shutdown
\* C26: once WsPool.shutdown has set the flag, every connection runner
\* eventually observes it and terminates, whether it is connected and idle,
\* receiving traffic, waiting 5 s to reconnect, or failing to connect again
\* and again.
C26_RunnersTerminate ==
    ws_shutdown ~> (\A r \in WsRunners : ws_pc[r] = "terminated")


\* ------------------------------------------------ claims on sending
\* C33: a send to a connection whose runner is Connected succeeds and
\* records a success in the health tracker; send_to_connection returns an
\* error only for an unknown connection id or a connection that is not
\* connected, and only then is a failure recorded.
C33_SendToConnected ==
    /\ ws_send.state = "Connected" =>
          ws_send.result = "Ok" /\ ws_send.health = "update_success"
    /\ ws_send.health = "update_failure" =>
          ws_send.id \notin WsRunners \/ ws_send.state # "Connected"

\* ------------------------------------------------ claims on reconnecting
\* The step takes runner r back to the top of run()'s loop, where the next
\* connection attempt starts.
C34_StartsOver(r) == ws_pc[r] # "connect" /\ ws_pc'[r] = "connect"

\* C34: a runner starts a new connection attempt after a lost connection or
\* a failed attempt (connect error, failure to send the subscription) only
\* from the 5 s wait and with its state Disconnected or Error, and its state
\* becomes Connected only by sending the subscription payload.
C34_WaitsBeforeNextAttempt ==
    [][\A r \in WsRunners :
          /\ C34_StartsOver(r) =>
                /\ ws_pc[r] \in {"error_sleep", "reconnect_sleep"}
                /\ ws_state[r] \in {"Disconnected", "Error"}
          /\ (ws_state[r] # "Connected" /\ ws_state'[r] = "Connected") =>
                ws_pc[r] = "subscribe"]_vars

\* ------------------------------------------------ claims on the OKX keepalive
\* The OKX runner stands at its select, connected.
C35_Connected == ws_pc["okex"] = "select"

\* A ping that was sent is answered within the period, or the runner has
\* closed the socket and left the select loop to reconnect.
C35_PongOrReconnect ==
    (C35_Connected /\ ws_waiting_pong["okex"]) => ws_idle["okex"] <= PingTicks

\* The pong is never sent on to the pool's message channel.
C35_PongNotForwarded == "pong" \notin ws_forwarded["okex"]

\* The step that clears the waiting state (a received pong) sets the timer
\* and forwards nothing.
C35_PongClears ==
    (C35_Connected /\ ws_waiting_pong["okex"] /\ ~ws_waiting_pong'["okex"]) =>
       /\ ws_pc'["okex"] = "select"
       /\ ws_deadline'["okex"] = PingTicks
       /\ ws_forwarded' = ws_forwarded

\* C35 as stated: while connected the OKX runner sends "ping" every 25 s,
\* whether or not other inbound traffic arrives in between (no more than a
\* period passes since its last ping, or since it connected); a ping not
\* answered by the next tick makes it close the socket and reconnect; a
\* received "pong" clears the waiting state and is never forwarded.
C35_PingEveryPeriod ==
    /\ [](C35_Connected => ws_idle["okex"] <= PingTicks)
    /\ [](C35_PongOrReconnect /\ C35_PongNotForwarded)
    /\ [][C35_PongClears]_vars

\* C35, amended: with no pong outstanding the runner sends "ping" once a
\* period has passed without any inbound message (each inbound message sets
\* the timer again); the rest as stated.
C35_PingAfterQuietPeriod ==
    /\ []((C35_Connected /\ ~ws_waiting_pong["okex"]) =>
             ws_quiet["okex"] + ws_deadline["okex"] = PingTicks)
    /\ [](C35_PongOrReconnect /\ C35_PongNotForwarded)
    /\ [][C35_PongClears]_vars

\* The OKX runner is connected, has forwarded data, has no pong outstanding
\* and sent its last ping, if any, more than a period ago.
C35_Witness ==
    /\ C35_Connected
    /\ ~ws_waiting_pong["okex"]
    /\ "data" \in ws_forwarded["okex"]
    /\ ws_idle["okex"] > PingTicks
\* ================ SpecDecode: from_bytes on payloads that are not well formed
\* The values whose encodings the payloads are made from.
DecodeStamp == [secs |-> 1700, nanos |-> 123000000]

DecodeSignals ==
    {x \in Signals : /\ x.exchange_id = 305419896
                     /\ x.symbol_id = 0
                     /\ x.timestamp = DecodeStamp}

DecodeEvents ==
    {e \in TradingEventsOver({<< >>, <<233, 97>>}, {DecodeStamp}) :
        /\ e.type \in {"OpenPosition", "ClosePosition", "ModifyOrder"} => e.exchange = "Bybit"
        /\ e.type = "HedgePosition" => e.primary_exchange = "Binance"}

DecodeMessages ==
    [event : DecodeEvents, sequence_id : {305419896}, timestamp : {DecodeStamp}]

DecodeTypes == {"Signal", "TradingEvent", "EventMessage"}

DecodeValues(type) ==
    CASE type = "Signal" -> DecodeSignals
      [] type = "TradingEvent" -> DecodeEvents
      [] type = "EventMessage" -> DecodeMessages

\* How from_bytes of the given type ends on bytes.
from_bytes_read(type, bytes) ==
    CASE type = "Signal" -> Signal_from_bytes_read(bytes)
      [] type = "TradingEvent" -> TradingEvent_from_bytes_read(bytes)
      [] type = "EventMessage" -> EventMessage_from_bytes_read(bytes)

\* The receiver calls from_bytes on a payload.
Decode(type, input, bytes) ==
    /\ dec_type' = type
    /\ dec_input' = input
    /\ dec_bytes' = bytes
    /\ dec_outcome' = from_bytes_read(type, bytes).outcome
    /\ UNCHANGED exceptDecode

\* A proper prefix of a well-formed encoding.
DecodeTruncated ==
    /\ dec_type = "none"
    /\ \E type \in DecodeTypes :
          \E x \in DecodeValues(type) :
             \E cut \in 0 .. Len(to_bytes(type, x)) - 1 :
                Decode(type, "truncated", Take(to_bytes(type, x), cut))

\* Tags no variant has.
UnknownTags == {5, 255}

\* A well-formed encoding with its tag replaced by an unknown one.
DecodeUnknownTag ==
    /\ dec_type = "none"
    /\ \E type \in DecodeTypes, tag \in UnknownTags :
          \E x \in DecodeValues(type) :
             Decode(type, "unknown_tag", put_u32_le(tag) \o Drop(to_bytes(type, x), 4))

\* A well-formed encoding with one of its enum fields replaced by 9, a
\* number none of the enums has.
DecodeBadEnum ==
    /\ dec_type = "none"
    /\ \E type \in DecodeTypes :
          \E x \in DecodeValues(type) :
             \E offset \in from_bytes_read(type, to_bytes(type, x)).enums :
                Decode(type, "bad_enum",
                       Take(to_bytes(type, x), offset) \o put_u32_le(9)
                          \o Drop(to_bytes(type, x), offset + 4))

\* A well-formed encoding.
DecodeWellFormed ==
    /\ dec_type = "none"
    /\ \E type \in DecodeTypes :
          \E x \in DecodeValues(type) : Decode(type, "well_formed", to_bytes(type, x))

NextDecode == DecodeTruncated \/ DecodeUnknownTag \/ DecodeBadEnum \/ DecodeWellFormed

SpecDecode == Init /\ [][NextDecode]_vars

\* ------------------------------------------------------ claims on from_bytes
\* C27: Signal::from_bytes, TradingEvent::from_bytes and
\* EventMessage::from_bytes return a decode error, and neither abort nor
\* return a value, on every truncated payload (every proper prefix of a
\* well-formed encoding, of every variant), on unknown tags and on enum fields
\* out of range.
C27_DecodeError ==
    dec_input \in {"truncated", "unknown_tag", "bad_enum"} => dec_outcome = "error"

====
